---- MODULE Spec2Model ----
(***************************************************************************)
(* A model of the AceBase browser bundle: the CustomStorage engine on top  *)
(* of the LocalStorage backend, the NodeLocker, and Storage.transactNode.  *)
(*                                                                         *)
(* Paths are sequences of keys, the root path is << >>.  A JavaScript      *)
(* value is a record [t, n, kv]: t is the typeof tag, n the number (or the *)
(* byte length of a string), kv the properties of an object.  Arrays,      *)
(* dates, binary values and path references are not part of this model.    *)
(***************************************************************************)
EXTENDS Integers, Sequences, FiniteSets, TLC

(***************************************************************************)
(* Bounds of the model                                                     *)
(***************************************************************************)
\* number of API calls made in one behaviour
MaxOps == 3

\* number of concurrent callers
NumCallers == 2

Callers == 1..NumCallers

\* deepest path that has a place in the backend
MaxDepth == 3

Names == <<"a", "b", "c", "d">>

\* the keys used at each level of the tree: one collection "a" under the
\* root, one child per caller in it, one property "a" in every child
KeysAt(d) == IF d = 2 THEN { Names[i] : i \in Callers } ELSE {"a"}

Keys == { Names[i] : i \in Callers }

AllPaths == UNION { { p \in [1..n -> Keys] : \A i \in 1..n : p[i] \in KeysAt(i) } : n \in 0..MaxDepth }

Root == << >>

(***************************************************************************)
(* Path utilities (PathInfo)                                               *)
(***************************************************************************)
parentPath(p) == SubSeq(p, 1, Len(p) - 1)

key(p) == p[Len(p)]

childPath(p, k) == Append(p, k)

isAncestorOf(p, q) == Len(p) < Len(q) /\ SubSeq(q, 1, Len(p)) = p

isParentOf(p, q) == Len(q) = Len(p) + 1 /\ SubSeq(q, 1, Len(p)) = p

(***************************************************************************)
(* JavaScript values                                                       *)
(***************************************************************************)
NoKV == << >>

JNum(n) == [t |-> "number", n |-> n, kv |-> NoKV]

JStr(len) == [t |-> "string", n |-> len, kv |-> NoKV]

JObj(f) == [t |-> "object", n |-> 0, kv |-> f]

\* the keys of the entries of an array: index i is arrayKeys[i + 1]
arrayKeys == <<"0", "1", "2", "3", "4">>

\* an array; f gives its entries by their keys
JArr(f) == [t |-> "array", n |-> 0, kv |-> f]

\* isNaN(key), for the keys of this model
isNaN(k) == \A i \in 1..Len(arrayKeys) : arrayKeys[i] # k

\* arr.every((k, index, arr) => arr.includes(index.toString()))
isExhaustive(ks) == \A i \in 1..Cardinality(ks) : i <= Len(arrayKeys) /\ arrayKeys[i] \in ks

JNull == [t |-> "null", n |-> 0, kv |-> NoKV]

JVoid == [t |-> "undefined", n |-> 0, kv |-> NoKV]

JEmpty == JObj(NoKV)

\* { [k]: v }
Single(k, v) == JObj([x \in {k} |-> v])

\* StorageSettings.maxInlineValueSize (default)
maxInlineValueSize == 50

\* StorageSettings.removeVoidProperties (default)
removeVoidProperties == FALSE

\* a string that needs a record of its own
JLong == JStr(4 * maxInlineValueSize)

\* most characters of one kind in the strings measured
MaxWide == 2

\* A string, as far as its sizes go: the numbers of its characters that UTF-8
\* encodes in one, two, three and four bytes.  Those of four bytes are the
\* ones UTF-16 holds as a surrogate pair.
Texts ==
    [one : 0..(maxInlineValueSize + 2), two : 0..MaxWide, three : 0..MaxWide, four : 0..MaxWide]

\* a string of len ASCII characters
ascii(len) == [one |-> len, two |-> 0, three |-> 0, four |-> 0]

\* String.length: the number of UTF-16 code units
length(str) == str.one + str.two + str.three + 2 * str.four

\* encodeString(str).length: the bytes TextEncoder.encode gives
encodeString(str) == str.one + 2 * str.two + 3 * str.three + 4 * str.four

\* Storage.valueFitsInline for a string, and for the path of a PathReference
textFitsInline(str) ==
    IF length(str) > maxInlineValueSize THEN FALSE
    ELSE encodeString(str) < maxInlineValueSize

\* Storage.valueFitsInline, for the value kinds of the stored values (their
\* strings are ASCII)
valueFitsInline(v) ==
    CASE v.t = "number" -> TRUE
      [] v.t = "string" -> textFitsInline(ascii(v.n))
      [] OTHER -> DOMAIN v.kv = {}

(***************************************************************************)
(* Stored records (ICustomStorageNode).  created and modified are left out *)
(***************************************************************************)
NoRec == [type |-> "none", value |-> NoKV, n |-> 0, revision |-> 0, revision_nr |-> 0]

isRec(r) == r.type # "none"

isObjRec(r) == r.type \in {"object", "array"}

\* LocalStorageTransaction.childrenOf: keys of the records stored at children
dedicatedKeys(st, p) ==
    { k \in Keys : Len(p) < MaxDepth /\ k \in KeysAt(Len(p) + 1) /\ isRec(st[childPath(p, k)]) }

\* LocalStorageTransaction.descendantsOf
descendantsOf(st, p) == { q \in AllPaths : isAncestorOf(p, q) /\ isRec(st[q]) }

\* CustomStorage._deleteNode: the record and the records of all descendants
_deleteNode(st, p) ==
    [q \in AllPaths |-> IF q = p \/ isAncestorOf(p, q) THEN NoRec ELSE st[q]]

RECURSIVE deleteNodes(_, _, _)
deleteNodes(st, p, ks) ==
    IF ks = {} THEN st
    ELSE LET k == CHOOSE x \in ks : TRUE
         IN  deleteNodes(_deleteNode(st, childPath(p, k)), p, ks \ {k})

(***************************************************************************)
(* CustomStorage._writeNode                                                *)
(* The result is [st, err]: the backend after the call and whether the     *)
(* call threw.  The child writes and deletes are started together          *)
(* (Promise.all), so those that do not throw take effect also when a       *)
(* sibling throws.                                                         *)
(***************************************************************************)
\* the value the loop would see if an update were taken for an overwrite
effectiveValueOverwriting(base, value, merge) ==
    [k \in (DOMAIN value.kv) \cup DOMAIN base |->
        IF k \in DOMAIN value.kv THEN value.kv[k] ELSE JNull]

\* the value the loop over Object.keys(value) sees: on an overwrite every key
\* of the current record that the new value lacks is added with null
effectiveValue(base, value, merge) ==
    [k \in (DOMAIN value.kv) \cup (IF merge THEN {} ELSE DOMAIN base) |->
        IF k \in DOMAIN value.kv THEN value.kv[k] ELSE JNull]

\* only the numbers kept in the main node
inlineNumbers(ev) == { k \in DOMAIN ev : ev[k].t = "number" }

\* keys stored in the main node
inlineKeys(ev) == { k \in DOMAIN ev : ev[k].t \notin {"null", "undefined"} /\ valueFitsInline(ev[k]) }

\* keys stored in child nodes (childNodeValues)
childKeys(ev) == { k \in DOMAIN ev : ev[k].t \notin {"null", "undefined"} /\ ~valueFitsInline(ev[k]) }

\* mainNode.value when the loop leaves the entries it does not store
mainValueKept(base, ev) ==
    [k \in (DOMAIN base) \cup inlineKeys(ev) |->
        IF k \in inlineKeys(ev) THEN ev[k] ELSE base[k]]

\* mainNode.value after the loop
mainValue(base, ev) ==
    [k \in ((DOMAIN base) \ (DOMAIN ev)) \cup inlineKeys(ev) |->
        IF k \in DOMAIN ev THEN ev[k] ELSE base[k]]

\* changes.delete computed for an update the way it is for an overwrite
changesDeleteAsOverwrite(current, new, value, merge) == current \ new

\* changes.delete
changesDelete(current, new, value, merge) ==
    IF merge THEN { k \in DOMAIN value : value[k].t = "null" }
    ELSE current \ new

RECURSIVE _writeNode(_, _, _, _, _)
RECURSIVE writeChildren(_, _, _, _, _)

writeChildren(st, path, ev, ks, revision) ==
    IF ks = {} THEN [st |-> st, err |-> FALSE]
    ELSE LET k == CHOOSE x \in ks : TRUE
             one == _writeNode(st, childPath(path, k), ev[k], FALSE, revision)
             rest == writeChildren(one.st, path, ev, ks \ {k}, revision)
         IN  [st |-> rest.st, err |-> one.err \/ rest.err]

_writeNode(st, path, value, merge, revision) ==
    IF (valueFitsInline(value) /\ path # Root) \/ (path = Root /\ value.t # "object")
    THEN [st |-> st, err |-> TRUE]
    ELSE
    LET currentRow == st[path]
        mainType == IF value.t = "string" THEN "string"
                    ELSE IF value.t = "array" \/ currentRow.type = "array" THEN "array"
                    ELSE "object"
        isArray == mainType = "array"
        mergeMismatch ==
            /\ merge
            /\ isRec(currentRow)
            /\ \/ /\ currentRow.type = "array"
                  /\ value.t = "object"
                  /\ \E k \in DOMAIN value.kv : isNaN(k)
               \/ value.t = "array" /\ currentRow.type # "array"
        currentIsObjectOrArray == isObjRec(currentRow)
        newIsObjectOrArray == mainType \in {"object", "array"}
        base == IF currentIsObjectOrArray /\ newIsObjectOrArray THEN currentRow.value ELSE NoKV
        ev == IF newIsObjectOrArray THEN effectiveValue(base, value, merge) ELSE NoKV
        voidKey == \E k \in DOMAIN ev : ev[k].t = "undefined"
        main == mainValue(base, ev)
        keys == dedicatedKeys(st, path)
        current == (IF currentIsObjectOrArray THEN DOMAIN currentRow.value ELSE {}) \cup keys
        new == IF newIsObjectOrArray
               THEN (IF merge THEN current ELSE {}) \cup DOMAIN ev
               ELSE {}
        movingNodes == keys \cap DOMAIN main
        deleteDedicatedKeys == changesDelete(current, new, ev, merge) \cup movingNodes
        insert == new \ current
        update == (new \cap current) \ changesDelete(current, new, ev, merge)
        brokenArray ==
            /\ isArray
            /\ IF isRec(currentRow)
               THEN /\ currentIsObjectOrArray \/ newIsObjectOrArray
                    /\ merge
                    /\ insert # {} \/ changesDelete(current, new, ev, merge) # {}
                    /\ ~isExhaustive(update \cup insert)
               ELSE ~isExhaustive((DOMAIN main) \cup childKeys(ev))
        written == writeChildren(st, path, ev, childKeys(ev), revision)
    IN  IF mergeMismatch \/ (voidKey /\ ~removeVoidProperties) \/ brokenArray
        THEN [st |-> st, err |-> TRUE]
        ELSE IF isRec(currentRow)
        THEN LET touched == IF currentIsObjectOrArray \/ newIsObjectOrArray
                            THEN deleteNodes(written.st, path, deleteDedicatedKeys)
                            ELSE st
                 stored == [type |-> mainType, value |-> main, n |-> value.n,
                            revision |-> currentRow.revision,
                            revision_nr |-> currentRow.revision_nr + 1]
             IN  IF (currentIsObjectOrArray \/ newIsObjectOrArray) /\ written.err
                 THEN [st |-> touched, err |-> TRUE]
                 ELSE [st |-> [touched EXCEPT ![path] = stored], err |-> FALSE]
        ELSE LET stored == [type |-> mainType, value |-> main, n |-> value.n,
                            revision |-> revision, revision_nr |-> 1]
             IN  [st |-> [written.st EXCEPT ![path] = stored], err |-> written.err]

(***************************************************************************)
(* CustomStorage.getNodeInfo: exists, address (is the node stored in a     *)
(* record of its own) and the revision of the record that holds it         *)
(***************************************************************************)
NoRevision == -1

inParent(st, path) ==
    /\ path # Root
    /\ isObjRec(st[parentPath(path)])
    /\ key(path) \in DOMAIN st[parentPath(path)].value

getNodeInfo(st, path) ==
    IF isRec(st[path])
    THEN [exists |-> TRUE, address |-> TRUE, revision |-> st[path].revision,
          revision_nr |-> st[path].revision_nr]
    ELSE IF inParent(st, path)
    THEN [exists |-> TRUE, address |-> FALSE, revision |-> st[parentPath(path)].revision,
          revision_nr |-> st[parentPath(path)].revision_nr]
    ELSE [exists |-> FALSE, address |-> FALSE, revision |-> NoRevision,
          revision_nr |-> 0]

(***************************************************************************)
(* CustomStorage.getNode: the target record merged with the records of all *)
(* its descendants, in the order descendantsOf streams them.  Where the    *)
(* merge throws (a property assigned on a string or number, the in         *)
(* operator applied to one) or, in another order of the rows, yields the   *)
(* characters of a string as properties, the value is JInvalid.            *)
(***************************************************************************)
JInvalid == [t |-> "invalid", n |-> 0, kv |-> NoKV]

hasRecords(st, p) == isRec(st[p]) \/ descendantsOf(st, p) # {}

RECURSIVE mergeRows(_, _)
mergeRows(st, p) ==
    LET inl == IF isObjRec(st[p]) THEN st[p].value ELSE NoKV
        ded == { k \in Keys : /\ Len(p) < MaxDepth
                               /\ k \in KeysAt(Len(p) + 1)
                               /\ hasRecords(st, childPath(p, k)) }
        below(k) == IF st[childPath(p, k)].type = "string"
                    THEN IF descendantsOf(st, childPath(p, k)) = {}
                         THEN JStr(st[childPath(p, k)].n)
                         ELSE JInvalid
                    ELSE mergeRows(st, childPath(p, k))
        entry(k) == IF k \notin ded THEN inl[k]
                    ELSE IF k \notin DOMAIN inl THEN below(k)
                    ELSE IF inl[k].t = "object"
                    THEN IF st[childPath(p, k)].type = "string" THEN JInvalid ELSE below(k)
                    ELSE IF below(k) = JEmpty THEN inl[k] ELSE JInvalid
        f == [k \in (DOMAIN inl) \cup ded |-> entry(k)]
    IN  IF \E k \in DOMAIN f : f[k] = JInvalid THEN JInvalid
        ELSE IF st[p].type = "array" THEN JArr(f)
        ELSE JObj(f)

\* the node getNode resolves with: its value (null when absent) and revision
getNode(st, path) ==
    IF isRec(st[path])
    THEN [value |-> IF st[path].type = "string"
                    THEN IF descendantsOf(st, path) = {} THEN JStr(st[path].n) ELSE JInvalid
                    ELSE mergeRows(st, path),
          revision |-> st[path].revision]
    ELSE IF inParent(st, path)
    THEN [value |-> st[parentPath(path)].value[key(path)],
          revision |-> st[parentPath(path)].revision]
    ELSE [value |-> JNull, revision |-> NoRevision]

getNodeValue(st, path) == getNode(st, path).value

(***************************************************************************)
(* CustomStorage.updateNode and CustomStorage.setNode, from the moment the *)
(* transaction holds its lock up to (not including) commit or rollback.    *)
(* The result is [st, err]; err is "none", "revision" (NodeRevisionError)  *)
(* or "error".                                                             *)
(***************************************************************************)
outcome(w) == [st |-> w.st, err |-> IF w.err THEN "error" ELSE "none"]

RECURSIVE updateNode(_, _, _, _)
updateNode(st, path, updates, revision) ==
    LET nodeInfo == getNodeInfo(st, path)
    IN  IF nodeInfo.exists /\ nodeInfo.address
        THEN outcome(_writeNode(st, path, updates, TRUE, revision))
        ELSE IF path = Root
        THEN [st |-> st, err |-> "error"]
        ELSE IF nodeInfo.exists
        THEN outcome(_writeNode(st, parentPath(path), Single(key(path), updates), TRUE, revision))
        ELSE updateNode(st, parentPath(path), Single(key(path), updates), revision)

\* assert_revision is NoRevision when the option is not given
setNode(st, path, value, assert_revision, revision) ==
    IF path = Root
    THEN IF value.t # "object"
         THEN [st |-> st, err |-> "error"]
         ELSE outcome(_writeNode(st, Root, value, FALSE, revision))
    ELSE IF assert_revision # NoRevision
    THEN LET info == getNodeInfo(st, path)
         IN  IF info.revision # assert_revision
             THEN [st |-> st, err |-> "revision"]
             ELSE IF info.address /\ value.t # "null" /\ ~valueFitsInline(value)
             THEN outcome(_writeNode(st, path, value, FALSE, revision))
             ELSE outcome(_writeNode(st, parentPath(path), Single(key(path), value), TRUE, revision))
    ELSE updateNode(st, parentPath(path), Single(key(path), value), revision)

\* the path the transaction's lock has been moved to when the write is made
\* (CustomStorageTransaction.moveToParentPath, called by getNodeInfo, setNode
\* and updateNode)
RECURSIVE updateLockPath(_, _)
updateLockPath(st, path) ==
    LET nodeInfo == getNodeInfo(st, path)
    IN  IF (nodeInfo.exists /\ nodeInfo.address) \/ path = Root THEN path
        ELSE IF nodeInfo.exists THEN parentPath(path)
        ELSE updateLockPath(st, parentPath(path))

setLockPath(st, path, value, assert_revision) ==
    IF path = Root THEN Root
    ELSE IF assert_revision # NoRevision
    THEN LET info == getNodeInfo(st, path)
         IN  IF info.address /\ (info.revision # assert_revision
                                  \/ (value.t # "null" /\ ~valueFitsInline(value)))
             THEN path
             ELSE parentPath(path)
    ELSE updateLockPath(st, parentPath(path))

getLockPath(st, path) ==
    IF isRec(st[path]) \/ path = Root THEN path ELSE parentPath(path)

(***************************************************************************)
(* NodeLocker.  A lock queue is the array _locks in request order; a lock  *)
(* is [tid, path, forWriting, state, priority].                            *)
(***************************************************************************)
PENDING == "pending"

LOCKED == "locked"

EXPIRED == "expired"

\* a locker that refuses nothing
_allowLockAlways(q, tid, forWriting) == TRUE

\* a locker that lets a writer in while others read
_allowLockBesideReaders(q, tid, forWriting) ==
    ~ \E i \in 1..Len(q) :
        /\ q[i].tid # tid
        /\ q[i].state = LOCKED
        /\ q[i].forWriting

\* NodeLocker._allowLock
_allowLock(q, tid, forWriting) ==
    ~ \E i \in 1..Len(q) :
        /\ q[i].tid # tid
        /\ q[i].state = LOCKED
        /\ (forWriting \/ q[i].forWriting)

\* a locker that grants every request at once
lockAtOnce(q, path, tid, forWriting, priority) ==
    Append(q, [tid |-> tid, path |-> path, forWriting |-> forWriting,
               state |-> LOCKED, priority |-> priority])

\* a lock of tid has expired and is still in the array
lockExpired(q, tid) == \E i \in 1..Len(q) : q[i].tid = tid /\ q[i].state = EXPIRED

\* NodeLocker.lock, for a new request; the request of a tid that has an
\* expired lock is rejected and adds nothing to the array
lock(q, path, tid, forWriting, priority) ==
    IF lockExpired(q, tid) THEN q
    ELSE Append(q, [tid |-> tid, path |-> path, forWriting |-> forWriting,
                    state |-> IF _allowLock(q, tid, forWriting) THEN LOCKED ELSE PENDING,
                    priority |-> priority])

\* the sequences that hold every element of S once
orderings(S) ==
    { o \in [1..Cardinality(S) -> S] : \A i, j \in 1..Cardinality(S) : i # j => o[i] # o[j] }

\* the orders in which _processLockQueue may visit the pending locks:
\* priority requests first; between requests of the same priority the
\* comparator returns a.requested < b.requested, which is no ordering, so
\* their order is the one the engine's sort happens to produce
pendingOrders(q) ==
    LET pri == { i \in 1..Len(q) : q[i].state = PENDING /\ q[i].priority }
        non == { i \in 1..Len(q) : q[i].state = PENDING /\ ~q[i].priority }
    IN  { a \o b : a \in orderings(pri), b \in orderings(non) }

RECURSIVE grantInOrder(_, _)
grantInOrder(q, order) ==
    IF order = << >> THEN q
    ELSE LET i == Head(order)
             granted == IF _allowLock(q, q[i].tid, q[i].forWriting)
                        THEN [q EXCEPT ![i].state = LOCKED]
                        ELSE q
         IN  grantInOrder(granted, Tail(order))

\* NodeLocker._processLockQueue, the sort giving order
_processLockQueue(q, order) == grantInOrder(q, order)

lockIndex(q, tid) == CHOOSE i \in 1..Len(q) : q[i].tid = tid

isGranted(q, tid) == \E i \in 1..Len(q) : q[i].tid = tid /\ q[i].state = LOCKED

removeAt(q, i) == SubSeq(q, 1, i - 1) \o SubSeq(q, i + 1, Len(q))

\* the orders the queue may be processed in when the lock of tid is gone
releaseOrders(q, tid) == pendingOrders(removeAt(q, lockIndex(q, tid)))

\* an unlock that leaves the lock in the queue
unlockKept(q, tid, processQueue, order) ==
    IF processQueue THEN _processLockQueue(q, order) ELSE q

\* NodeLocker.unlock
unlock(q, tid, processQueue, order) ==
    LET rest == removeAt(q, lockIndex(q, tid))
    IN  IF processQueue THEN _processLockQueue(rest, order) ELSE rest

\* NodeLock.moveToParent, repeated until the lock is on targetPath
moveToParent(q, tid, targetPath) ==
    LET i == lockIndex(q, tid)
    IN  IF q[i].path = targetPath THEN q
        ELSE IF _allowLock(q, tid, q[i].forWriting)
        THEN [q EXCEPT ![i].path = targetPath]
        ELSE lock(unlock(q, tid, FALSE, << >>), parentPath(q[i].path), tid, q[i].forWriting, TRUE)

\* number of transactions that hold or wait for a lock at one time
MaxTransactions == 3

Tids == 1..MaxTransactions

\* seconds
LOCK_TIMEOUT == 90

\* the times timeoutHandler warns before it lets a lock expire
MaxWarnings == 3

\* timeoutHandler of a granted lock, run LOCK_TIMEOUT / 3 after the grant
\* and after each of its own runs: count is timeoutCount after this run
timeoutHandler(q, tid, count, order) ==
    IF ~isGranted(q, tid) THEN q
    ELSE IF count <= MaxWarnings THEN q
    ELSE _processLockQueue([q EXCEPT ![lockIndex(q, tid)].state = EXPIRED], order)

\* NodeLock.moveTo: the lock is changed in place when the locker allows it
\* on the other path; otherwise it is released without processing the queue
\* and asked for again with priority
moveTo(q, tid, otherPath, forWriting) ==
    IF _allowLock(q, tid, forWriting)
    THEN [q EXCEPT ![lockIndex(q, tid)].path = otherPath, ![lockIndex(q, tid)].forWriting = forWriting]
    ELSE lock(unlock(q, tid, FALSE, << >>), otherPath, tid, forWriting, TRUE)

(***************************************************************************)
(* Paths with wildcards (PathInfo) and the subscriptions of the storage    *)
(* (Storage.subscriptions).  _subs is kept as the sequence of its keys in  *)
(* the order they were added (the order of Object.keys), each with the     *)
(* event types subscribed on it in the order of the calls.                 *)
(***************************************************************************)
Wildcard == "*"

isVariable(k) == k = Wildcard

sameKey(k, otherKey) == otherKey = k \/ isVariable(otherKey) \/ isVariable(k)

equals(p, otherPath) ==
    \/ p = otherPath
    \/ /\ Len(p) = Len(otherPath)
       /\ \A i \in 1..Len(p) : sameKey(p[i], otherPath[i])

isDescendantOf(p, ancestorPath) ==
    /\ p # Root
    /\ p # ancestorPath
    /\ \/ ancestorPath = Root
       \/ /\ Len(ancestorPath) < Len(p)
          /\ \A i \in 1..Len(ancestorPath) : sameKey(ancestorPath[i], p[i])

isOnTrailOf(p, otherPath) ==
    \/ p = Root
    \/ otherPath = Root
    \/ \A i \in 1..Len(p) : i > Len(otherPath) \/ sameKey(p[i], otherPath[i])

\* fullPath is on the trail of varPath wherever this is called, so the throw
\* for keys that do not match is never reached
fillVariables(varPath, fullPath) ==
    [i \in 1..Len(varPath) |->
        IF i > Len(fullPath) \/ varPath[i] = fullPath[i] THEN varPath[i] ELSE fullPath[i]]

\* the event types that carry no data, and the type each stands for:
\* type.slice('notify_'.length)
isNotify(type) ==
    type \in {"notify_value", "notify_child_changed", "notify_child_added", "notify_child_removed"}

dataType(type) ==
    CASE type = "notify_value" -> "value"
      [] type = "notify_child_changed" -> "child_changed"
      [] type = "notify_child_added" -> "child_added"
      [] type = "notify_child_removed" -> "child_removed"
      [] OTHER -> type

\* subscriptions.add
add(sb, path, type) ==
    IF \E i \in 1..Len(sb) : sb[i].path = path
    THEN [i \in 1..Len(sb) |->
            IF sb[i].path = path THEN [sb[i] EXCEPT !.subs = Append(@, type)] ELSE sb[i]]
    ELSE Append(sb, [path |-> path, subs |-> <<type>>])

RECURSIVE pathSubs(_)
\* every subscription, in the order forEach goes through _subs
pathSubs(sb) ==
    IF sb = << >> THEN << >>
    ELSE [i \in 1..Len(Head(sb).subs) |-> [path |-> Head(sb).path, type |-> Head(sb).subs[i]]]
         \o pathSubs(Tail(sb))

\* the elements of s without those equal to an earlier one, in the order of s
withoutRepeats(s) ==
    LET kept == { i \in 1..Len(s) : \A j \in 1..(i - 1) : s[j] # s[i] }
    IN  [n \in 1..Cardinality(kept) |->
            s[CHOOSE i \in kept : Cardinality({ j \in kept : j < i }) = n - 1]]

\* Array.prototype.sort on the number of keys of dataPath; equal elements
\* keep their order
sortByKeys(s, deepestFirst) ==
    LET precedes(j, i) ==
            \/ IF deepestFirst THEN Len(s[j].dataPath) > Len(s[i].dataPath)
                               ELSE Len(s[j].dataPath) < Len(s[i].dataPath)
            \/ Len(s[j].dataPath) = Len(s[i].dataPath) /\ j < i
    IN  [n \in 1..Len(s) |->
            s[CHOOSE i \in 1..Len(s) : Cardinality({ j \in 1..Len(s) : precedes(j, i) }) = n - 1]]

getValueSubscribersForPath(sb, path) ==
    LET eventPath(s) == fillVariables(s.path, path)
        needsValue(s) ==
            /\ equals(path, s.path) \/ isDescendantOf(path, s.path)
            /\ \/ s.type = "value"
               \/ s.type = "mutated" /\ isDescendantOf(path, eventPath(s))
               \/ s.type = "child_changed" /\ path # eventPath(s)
               \/ s.type \in {"child_added", "child_removed"} /\ isParentOf(eventPath(s), path)
        found == SelectSeq(pathSubs(sb), needsValue)
    IN  [i \in 1..Len(found) |->
            [type |-> found[i].type,
             eventPath |-> eventPath(found[i]),
             dataPath |-> IF found[i].type = "value" THEN eventPath(found[i])
                          ELSE IF found[i].type = "mutated" THEN path
                          ELSE childPath(eventPath(found[i]), path[Len(eventPath(found[i])) + 1]),
             subscriptionPath |-> found[i].path]]

getAllSubscribersForPath(sb, path) ==
    LET eventPath(s) == fillVariables(s.path, path)
        onTrail(s) ==
            /\ isOnTrailOf(path, s.path)
            /\ dataType(s.type) \in {"child_added", "child_removed"} =>
                  \/ isParentOf(eventPath(s), path)
                  \/ path = eventPath(s)
                  \/ isAncestorOf(path, eventPath(s))
        found == SelectSeq(pathSubs(sb), onTrail)
        childKey(s) == IF path = eventPath(s) \/ isAncestorOf(path, eventPath(s))
                       THEN Wildcard
                       ELSE path[Len(eventPath(s)) + 1]
    IN  withoutRepeats(
            [i \in 1..Len(found) |->
                [type |-> found[i].type,
                 eventPath |-> eventPath(found[i]),
                 dataPath |-> IF dataType(found[i].type) = "value" THEN eventPath(found[i])
                              ELSE IF found[i].type = "mutated" THEN path
                              ELSE childPath(eventPath(found[i]), childKey(found[i])),
                 subscriptionPath |-> found[i].path]])

(***************************************************************************)
(* Storage._writeNodeWithTracking: the value at the top event path is read *)
(* before the write, the value after it is worked out from that value and  *)
(* the value written, and the callbacks to run are found by comparing the  *)
(* two.                                                                    *)
(***************************************************************************)
\* the values here hold no arrays, dates or typed arrays, so the comparison
\* key by key comes down to equality; "changed" also stands for the record
\* {added, removed, changed} two objects give
compareValues(oldVal, newVal) ==
    IF oldVal = newVal THEN "identical"
    ELSE IF oldVal.t \in {"null", "undefined"} /\ newVal.t \notin {"null", "undefined"} THEN "added"
    ELSE IF oldVal.t \notin {"null", "undefined"} /\ newVal.t \in {"null", "undefined"} THEN "removed"
    ELSE "changed"

getChildValue(childKey, v) ==
    IF v.t = "object" /\ childKey \in DOMAIN v.kv /\ v.kv[childKey].t # "undefined"
    THEN v.kv[childKey]
    ELSE JNull

getChildValues(childKey, oldValue, newValue) ==
    [oldValue |-> getChildValue(childKey, oldValue), newValue |-> getChildValue(childKey, newValue)]

\* the first variable of dataPath replaced by the key it stands for
replaceVariable(dataPath, k) ==
    LET first == CHOOSE i \in 1..Len(dataPath) :
                    isVariable(dataPath[i]) /\ \A j \in 1..(i - 1) : ~isVariable(dataPath[j])
    IN  [dataPath EXCEPT ![first] = k]

\* the call of subscriptions.trigger made for sub, or none
callSubscriberWithValues(sub, dataPath, oldValue, newValue) ==
    LET type == dataType(sub.type)
        trigger == IF type = "mutated" THEN FALSE
                   ELSE IF type = "child_changed" /\ (oldValue = JNull \/ newValue = JNull)
                   THEN FALSE
                   ELSE IF type = "child_added" THEN oldValue = JNull /\ newValue # JNull
                   ELSE IF type = "child_removed" THEN oldValue # JNull /\ newValue = JNull
                   ELSE compareValues(oldValue, newValue) # "identical"
    IN  IF trigger
        THEN << [type |-> sub.type, path |-> sub.subscriptionPath, dataPath |-> dataPath,
                 oldValue |-> oldValue, newValue |-> newValue] >>
        ELSE << >>

\* Object.keys of the old value, then those of the new value not among them;
\* the values of the model keep no order of their keys, the names' is taken
allKeys(oldValue, newValue) ==
    LET ks == (IF oldValue.t = "object" THEN DOMAIN oldValue.kv ELSE {})
              \cup (IF newValue.t = "object" THEN DOMAIN newValue.kv ELSE {})
        at(k) == CHOOSE i \in 1..Len(Names) : Names[i] = k
    IN  [n \in 1..Cardinality(ks) |->
            CHOOSE k \in ks : Cardinality({ x \in ks : at(x) < at(k) }) = n - 1]

RECURSIVE process(_, _, _, _, _)
\* trailKeys are the keys of sub.dataPath still to go down from the values
process(sub, trailKeys, dataPath, oldValue, newValue) ==
    IF trailKeys = << >>
    THEN callSubscriberWithValues(sub, dataPath, oldValue, newValue)
    ELSE IF isVariable(Head(trailKeys))
    THEN LET ks == allKeys(oldValue, newValue)
             RECURSIVE forEach(_)
             forEach(n) ==
                IF n > Len(ks) THEN << >>
                ELSE process(sub, Tail(trailKeys), replaceVariable(dataPath, ks[n]),
                             getChildValue(ks[n], oldValue), getChildValue(ks[n], newValue))
                     \o forEach(n + 1)
         IN  forEach(1)
    ELSE process(sub, Tail(trailKeys), dataPath,
                 getChildValues(Head(trailKeys), oldValue, newValue).oldValue,
                 getChildValues(Head(trailKeys), oldValue, newValue).newValue)

RECURSIVE prepareMutationEvents(_, _, _)
\* the batch of mutations [path, oldValue, newValue] found from currentPath
\* down: where compareValues gives a string the path itself, an array as a
\* whole, and for two objects the batches of the changed keys, then the
\* added and the removed keys
prepareMutationEvents(currentPath, oldValue, newValue) ==
    IF oldValue = newValue THEN << >>
    ELSE IF oldValue.t # "object" \/ newValue.t # "object"
    THEN << [path |-> currentPath, oldValue |-> oldValue, newValue |-> newValue] >>
    ELSE LET ks == allKeys(oldValue, newValue)
             isChanged(k) == k \in DOMAIN oldValue.kv /\ k \in DOMAIN newValue.kv
             RECURSIVE forChanged(_)
             forChanged(n) ==
                IF n > Len(ks) THEN << >>
                ELSE (IF isChanged(ks[n])
                      THEN prepareMutationEvents(Append(currentPath, ks[n]),
                                                 oldValue.kv[ks[n]], newValue.kv[ks[n]])
                      ELSE << >>) \o forChanged(n + 1)
             once(k) == [path |-> Append(currentPath, k),
                         oldValue |-> getChildValue(k, oldValue),
                         newValue |-> IF k \in DOMAIN newValue.kv THEN newValue.kv[k] ELSE JNull]
             isAdded(k) == k \notin DOMAIN oldValue.kv
             isRemoved(k) == k \notin DOMAIN newValue.kv
         IN  forChanged(1)
             \o [n \in 1..Len(SelectSeq(ks, isAdded)) |-> once(SelectSeq(ks, isAdded)[n])]
             \o [n \in 1..Len(SelectSeq(ks, isRemoved)) |-> once(SelectSeq(ks, isRemoved)[n])]

RECURSIVE valuesAt(_, _, _)
\* getChildValues down the keys of trailKeys
valuesAt(trailKeys, oldValue, newValue) ==
    IF trailKeys = << >> THEN [oldValue |-> oldValue, newValue |-> newValue]
    ELSE valuesAt(Tail(trailKeys), getChildValue(Head(trailKeys), oldValue),
                  getChildValue(Head(trailKeys), newValue))

\* the calls of subscriptions.trigger for a mutated subscription: the walk
\* starts at the path written to, with the values of the top event path
mutatedEvents(sub, path, topEventData, newTopEventData) ==
    LET trailKeys == SubSeq(sub.eventPath, Len(path) + 1, Len(sub.eventPath))
        at == valuesAt(trailKeys, topEventData, newTopEventData)
        batch == prepareMutationEvents(path \o trailKeys, at.oldValue, at.newValue)
    IN  [n \in 1..Len(batch) |->
            [type |-> sub.type, path |-> sub.subscriptionPath, dataPath |-> batch[n].path,
             oldValue |-> batch[n].oldValue, newValue |-> batch[n].newValue]]

\* the call of subscriptions.trigger for a notify subscription on a path above
\* the top event path, or none: the callback is given no values
notifyAbove(sub, topEventPath, dataChanges) ==
    LET isOnParentPath == isParentOf(sub.eventPath, topEventPath)
        trigger ==
            \/ sub.type = "notify_value"
            \/ sub.type = "notify_child_changed"
                  /\ (~isOnParentPath \/ dataChanges \notin {"added", "removed"})
            \/ sub.type = "notify_child_removed" /\ dataChanges = "removed" /\ isOnParentPath
            \/ sub.type = "notify_child_added" /\ dataChanges = "added" /\ isOnParentPath
    IN  IF trigger
        THEN << [type |-> sub.type, path |-> sub.subscriptionPath, dataPath |-> sub.dataPath,
                 oldValue |-> JNull, newValue |-> JNull] >>
        ELSE << >>

\* the calls of subscriptions.trigger, in the order they are made
triggerAllEvents(eventSubscriptions, path, topEventPath, topEventData, newTopEventData) ==
    LET isMutated(sub) == sub.type = "mutated"
        notMutated(sub) == sub.type # "mutated"
        sorted == sortByKeys(SelectSeq(eventSubscriptions, notMutated), TRUE)
        mutations == SelectSeq(eventSubscriptions, isMutated)
        RECURSIVE forEach(_)
        forEach(n) ==
            IF n > Len(sorted) THEN << >>
            ELSE (IF isNotify(sorted[n].type) /\ isAncestorOf(sorted[n].eventPath, topEventPath)
                  THEN notifyAbove(sorted[n], topEventPath,
                                   compareValues(topEventData, newTopEventData))
                  ELSE process(sorted[n],
                               SubSeq(sorted[n].dataPath, Len(topEventPath) + 1,
                                      Len(sorted[n].dataPath)),
                               sorted[n].dataPath, topEventData, newTopEventData))
                 \o forEach(n + 1)
        RECURSIVE forEachMutated(_)
        forEachMutated(n) ==
            IF n > Len(mutations) THEN << >>
            ELSE mutatedEvents(mutations[n], path, topEventData, newTopEventData)
                 \o forEachMutated(n + 1)
    IN  forEach(1) \o forEachMutated(1)

\* the properties of value put on modifiedData (merge); a property cannot be
\* put on a string or a number: TypeError, given as JInvalid
assignKeys(modifiedData, value) ==
    IF modifiedData.t # "object"
    THEN IF \E k \in DOMAIN value.kv : value.kv[k].t # "null" THEN JInvalid ELSE modifiedData
    ELSE JObj([k \in { x \in (DOMAIN modifiedData.kv) \cup (DOMAIN value.kv) :
                        x \in DOMAIN value.kv => value.kv[x].t # "null" } |->
                 IF k \in DOMAIN value.kv THEN value.kv[k] ELSE modifiedData.kv[k]])

RECURSIVE modified(_, _, _, _)
\* data with value put at the end of trailKeys
modified(data, trailKeys, value, merge) ==
    IF trailKeys = << >>
    THEN IF merge THEN assignKeys(data, value) ELSE value
    ELSE IF data.t # "object"
    THEN JInvalid
    ELSE LET childKey == Head(trailKeys)
             child == IF childKey \in DOMAIN data.kv THEN data.kv[childKey] ELSE JEmpty
             below == IF ~merge /\ Len(trailKeys) = 1 THEN value
                      ELSE modified(child, Tail(trailKeys), value, merge)
         IN  IF below = JInvalid THEN JInvalid
             ELSE JObj([k \in (DOMAIN data.kv) \cup {childKey} |->
                          IF k = childKey THEN below ELSE data.kv[k]])

newTopEventData(topEventData, path, topEventPath, value, merge) ==
    modified(IF topEventData # JNull THEN topEventData
             ELSE IF path = topEventPath THEN value ELSE JEmpty,
             SubSeq(path, Len(topEventPath) + 1, Len(path)), value, merge)

\* whether the whole value at the top event path is loaded: not when the
\* value subscribers on the shallowest data path are all mutated ones
hasValueSubscribers(sb, path) ==
    LET valueSubscribers == getValueSubscribersForPath(sb, path)
        first == sortByKeys(valueSubscribers, FALSE)[1].dataPath
    IN  /\ valueSubscribers # << >>
        /\ \E i \in 1..Len(valueSubscribers) :
              valueSubscribers[i].dataPath = first /\ valueSubscribers[i].type # "mutated"

\* the shallowest data path of the value subscribers, or path without them
topEventPath(sb, path) ==
    LET valueSubscribers == getValueSubscribersForPath(sb, path)
    IN  IF valueSubscribers = << >> THEN path
        ELSE fillVariables(sortByKeys(valueSubscribers, FALSE)[1].dataPath, path)

\* the records getNode reads under the include filter keysFilter: of the
\* records below path those of the children named and below them
including(st, path, keysFilter) ==
    [q \in AllPaths |->
        IF isAncestorOf(path, q) /\ q[Len(path) + 1] \notin keysFilter THEN NoRec ELSE st[q]]

\* the value read at the top event path before the write
currentValue(st, sb, path, value, merge) ==
    LET top == topEventPath(sb, path)
        keysFilter == IF ~hasValueSubscribers(sb, path) /\ merge
                      THEN DOMAIN value.kv ELSE {}
    IN  IF ~getNodeInfo(st, top).exists THEN JNull
        ELSE IF keysFilter # {} THEN getNodeValue(including(st, top, keysFilter), top)
        ELSE getNodeValue(st, top)

\* the result is [st, err, events]: events are the calls triggerAllEvents
\* makes when it runs
_writeNodeWithTracking(st, sb, path, value, merge, revision) ==
    LET eventSubscriptions == getAllSubscribersForPath(sb, path)
        top == topEventPath(sb, path)
        topEventData == currentValue(st, sb, path, value, merge)
        w == _writeNode(st, path, value, merge, revision)
        newData == newTopEventData(topEventData, path, top, value, merge)
    IN  IF eventSubscriptions = << >>
        THEN [st |-> w.st, err |-> w.err, deferred |-> FALSE, events |-> << >>]
        ELSE IF topEventData = JInvalid
        THEN [st |-> st, err |-> TRUE, deferred |-> FALSE, events |-> << >>]
        ELSE IF w.err \/ newData = JInvalid
        THEN [st |-> w.st, err |-> TRUE, deferred |-> FALSE, events |-> << >>]
        ELSE IF compareValues(topEventData, newData) = "identical"
        THEN [st |-> w.st, err |-> FALSE, deferred |-> FALSE, events |-> << >>]
        ELSE [st |-> w.st, err |-> FALSE, deferred |-> TRUE,
              events |-> triggerAllEvents(eventSubscriptions, path, top, topEventData, newData)]

\* the write setNode and updateNode end in: _writeNodeWithTracking(path, value,
\* {merge}), or none when they throw before it
NoTarget == [path |-> Root, value |-> JNull, merge |-> FALSE, none |-> TRUE]

RECURSIVE updateTarget(_, _, _)
updateTarget(st, path, updates) ==
    LET nodeInfo == getNodeInfo(st, path)
    IN  IF nodeInfo.exists /\ nodeInfo.address
        THEN [path |-> path, value |-> updates, merge |-> TRUE, none |-> FALSE]
        ELSE IF path = Root
        THEN NoTarget
        ELSE IF nodeInfo.exists
        THEN [path |-> parentPath(path), value |-> Single(key(path), updates), merge |-> TRUE, none |-> FALSE]
        ELSE updateTarget(st, parentPath(path), Single(key(path), updates))

setTarget(st, path, value, assert_revision) ==
    IF path = Root
    THEN IF value.t # "object" THEN NoTarget
         ELSE [path |-> Root, value |-> value, merge |-> FALSE, none |-> FALSE]
    ELSE IF assert_revision # NoRevision
    THEN LET info == getNodeInfo(st, path)
         IN  IF info.revision # assert_revision
             THEN NoTarget
             ELSE IF info.address /\ value.t # "null" /\ ~valueFitsInline(value)
             THEN [path |-> path, value |-> value, merge |-> FALSE, none |-> FALSE]
             ELSE [path |-> parentPath(path), value |-> Single(key(path), value), merge |-> TRUE, none |-> FALSE]
    ELSE updateTarget(st, parentPath(path), Single(key(path), value))

\* setNode or updateNode of a storage with the subscriptions sb: the result
\* is [st, err, deferred, events]
tracked(st, sb, kind, path, value, assert_revision, revision) ==
    LET t == IF kind = "update" THEN updateTarget(st, path, value)
             ELSE setTarget(st, path, value, assert_revision)
    IN  IF sb = << >> \/ t.none
        THEN [deferred |-> FALSE, events |-> << >>]
                @@ (IF kind = "update" THEN updateNode(st, path, value, revision)
                    ELSE setNode(st, path, value, assert_revision, revision))
        ELSE [_writeNodeWithTracking(st, sb, t.path, t.value, t.merge, revision)
                EXCEPT !.err = IF @ THEN "error" ELSE "none"]

\* fn run at once instead of deferred
callNow(l, fn) == [l EXCEPT !.calls = @ \o fn]

\* defer(fn): process.nextTick(fn), which is setTimeout(fn, 0); l is the event
\* loop, fn the calls that fn makes when it runs
defer(l, fn) == [l EXCEPT !.ticks = Append(@, fn)]

(***************************************************************************)
(* What a write means for the tree, independent of how it is stored        *)
(***************************************************************************)
RECURSIVE strip(_)
\* a value without its null properties
strip(v) ==
    IF v.t # "object" THEN v
    ELSE JObj([k \in { x \in DOMAIN v.kv : v.kv[x].t # "null" } |-> strip(v.kv[k])])

\* the value of a node after update(updates) when it held old
merged(old, updates) ==
    IF old.t # "object" THEN strip(updates)
    ELSE JObj([k \in { x \in (DOMAIN old.kv) \cup (DOMAIN updates.kv) :
                        x \in DOMAIN updates.kv => updates.kv[x].t # "null" } |->
                 IF k \in DOMAIN updates.kv THEN strip(updates.kv[k]) ELSE old.kv[k]])

RECURSIVE nullPaths(_, _)
\* the paths a write of v at p puts null on
nullPaths(p, v) ==
    IF v.t = "null" THEN {p}
    ELSE IF v.t # "object" THEN {}
    ELSE UNION { nullPaths(childPath(p, k), v.kv[k]) : k \in DOMAIN v.kv }

(***************************************************************************)
(* Arguments of the API calls                                              *)
(***************************************************************************)
\* number of writes made one after the other in the storage scenario
MaxWrites == 2

A == <<"a">>

AA == <<"a", "a">>

AB == <<"a", "b">>

AAA == <<"a", "a", "a">>

\* values given for the property "a" of the node at A
EntriesA == {JNum(1), JLong, JNull, Single("a", JLong), Single("a", JNull)}

\* values given for the property "b" of the node at A
EntriesB == {JLong, Single("a", JVoid)}

ObjectsA ==
    { JObj(f) : f \in [{"a"} -> EntriesA] \cup [{"b"} -> EntriesB] }
    \cup { JObj([k \in {"a", "b"} |-> IF k = "a" THEN x ELSE y]) : x \in EntriesA, y \in EntriesB }

\* the values a caller passes to set or update on path in the storage scenario
storeValues(kind, path) ==
    CASE kind = "update" /\ path = Root -> { Single("a", v) : v \in {JNull, JLong, Single("a", JLong)} }
      [] kind = "update" /\ path = A -> ObjectsA
      [] kind = "update" /\ path = AA -> { Single("a", v) : v \in {JNum(1), JLong, JNull} }
      [] kind = "set" /\ path = A -> {JNum(1), JLong, JEmpty, JNull} \cup ObjectsA
      [] kind = "set" /\ path = AA -> {JNum(1), JLong, JEmpty, JNull, Single("a", JNum(1)), Single("a", JLong)}
      [] kind = "set" /\ path = AB -> {JLong, JNull}
      [] kind = "set" /\ path = AAA -> {JNum(1), JLong, JNull}
      [] OTHER -> {}

\* the values concurrent callers pass in the locking scenario
lockValues(kind, path) ==
    CASE kind = "update" /\ path = A -> { Single("a", Single("a", JVoid)) }
      [] kind = "set" /\ path = AA -> {JNum(7), JLong, JNull}
      [] OTHER -> {}

\* the paths read in the locking scenario
lockReads == {AA}

\* the caller that makes the transactions of the locking scenario; the other
\* callers make the plain calls
transactor == 1

\* the script: update(table, songs), query().filter(playlistId == playlist1)
\* .remove(), update(table, songs); A is the table, its children the songs
\* and their property "a" the playlistId
ScriptSteps == 3

playlist1 == JStr(9)

playlist2 == JStr(8)

songs ==
    { JObj(f) : f \in UNION { [ks -> {Single("a", playlist1), Single("a", playlist2)}] :
                                ks \in (SUBSET Keys) \ {{}} } }

scriptKind(left) == IF left = 2 THEN "query" ELSE "update"

scriptValues(kind, path) ==
    CASE kind = "update" /\ path = A -> songs
      [] kind = "set" /\ isParentOf(A, path) -> {JNull}
      [] OTHER -> {}

\* the children of the value read at the queried path that the filter matches
matchedKeys(v) ==
    IF v.t # "object" THEN {}
    ELSE { k \in DOMAIN v.kv : /\ v.kv[k].t = "object"
                                /\ "a" \in DOMAIN v.kv[k].kv
                                /\ v.kv[k].kv["a"] = playlist1 }

\* the node the transactions of the locking scenario work on
transactPath == AA

\* number of calls started in the retry scenario: one transaction on
\* transactPath and the sets another caller makes on it meanwhile
MaxRetryOps == 4

\* the values the other caller passes in the retry scenario
retryValues(kind, path) ==
    IF kind = "set" /\ path = transactPath THEN {JNum(7), JLong, JNull} ELSE {}

\* number of writes made one after the other in the array scenario
MaxArrayWrites == 3

\* the array [1, 2, 3]
uvw == JArr([k \in {"0", "1", "2"} |-> JNum(CHOOSE i \in 1..3 : arrayKeys[i] = k)])

\* the values the caller passes in the array scenario; A is the array
arrayValues(kind, path) ==
    CASE kind = "set" /\ path = A ->
            {uvw, JArr([uvw.kv EXCEPT !["1"] = JNull]), Single("a", JNum(1))}
      [] kind = "update" /\ path = A ->
            {Single("2", JNull), Single("0", JNull), Single("3", JNum(4)), Single("4", JNum(5))}
      [] OTHER -> {}

\* number of writes made one after the other in the events scenario
MaxEventWrites == 2

\* number of subscriptions made in the events scenario
MaxSubs == 2

\* the subscriptions made in the events scenario: ref(path).on(type)
subscribable ==
    { [path |-> AA, type |-> "value"], [path |-> A, type |-> "value"],
      [path |-> A, type |-> "child_changed"], [path |-> <<"a", Wildcard>>, type |-> "value"] }

\* the subscriptions made in the children scenario
watchable ==
    { [path |-> A, type |-> t] :
        t \in {"child_added", "child_removed", "child_changed", "value", "mutated"} }

\* the values the caller passes in the events and the children scenario
eventValues(kind, path) ==
    CASE kind = "set" /\ path = AA -> {JNum(1), JLong, JNull, Single("a", JNum(2))}
      [] kind = "set" /\ path = A -> {Single("a", JNull)}
      [] kind = "set" /\ path = AAA -> {JNum(1)}
      [] kind = "update" /\ path = A -> {Single("b", JNum(1))}
      [] OTHER -> {}

\* number of writes made one after the other in the streams scenario
MaxStreamWrites == 2

\* number of callbacks subscribed to the event streams
MaxSubscribers == 2

RECURSIVE subscribersOf(_)
\* the number of subscribers the streams have
subscribersOf(ss) ==
    IF ss = << >> THEN 0 ELSE Len(Head(ss).subscribers) + subscribersOf(Tail(ss))

\* the callbacks of the subscribers and the event handlers of the queries: one
\* returns nothing, one throws, one returns false
listeners == {"returns", "throws", "refuses"}

\* the event streams made in the streams scenario: ref(path).on(type)
streamable == { [path |-> A, type |-> "value"], [path |-> AA, type |-> "value"] }

\* the values the caller passes in the streams scenario
streamValues(kind, path) ==
    CASE kind = "set" /\ path = AA -> {JNum(1), JNull}
      [] OTHER -> {}

\* number of writes made one after the other in the query scenario
MaxQueryWrites == 2

\* the collection the query is on, one of its children and the key filtered
posts == A

p1 == AA

status == "a"

\* the strings "live" and "draft"
live == JStr(4)

draft == JStr(5)

\* options.monitor of the query: {add: true, remove: true}, or true, which
\* stands for all three
monitors ==
    { [add |-> TRUE, change |-> FALSE, remove |-> TRUE],
      [add |-> TRUE, change |-> TRUE, remove |-> TRUE] }

\* the subscriptions made beside the query in the query scenario
overheard == { [path |-> p1, type |-> "value"], [path |-> posts, type |-> "value"] }

\* the values the caller passes in the query scenario
queryValues(kind, path) ==
    CASE kind = "update" /\ path = p1 -> {Single(status, live), Single(status, draft)}
      [] kind = "set" /\ path = p1 -> {JNull}
      [] OTHER -> {}

\* number of transactions started in the counter scenario
MaxIncrements == 3

\* the node the transactions of the counter scenario work on
counter == A

\* the callback v => (v || 0) + 1, for the null and number it is given here
increment(v) == JNum((IF v.t = "number" THEN v.n ELSE 0) + 1)

(***************************************************************************)
(* Event streams (EventStream) and the callbacks behind the subscriptions  *)
(* of the storage.  A run of triggerAllEvents is followed in r: [subs,     *)
(* streams, liveQuery, heard, calls, thrown, later], where thrown says that *)
(* a callback threw out of subscriptions.trigger and later holds the       *)
(* promise reactions made, which run when triggerAllEvents has returned    *)
(***************************************************************************)
\* subscriptions.remove(path, type, callback)
remove(sb, path, type) ==
    [i \in 1..Len(sb) |->
        IF sb[i].path = path
        THEN [sb[i] EXCEPT !.subs = SelectSeq(@, LAMBDA t : t # type)]
        ELSE sb[i]]

\* subscriptions.remove(path, type, callback) for the callback subscribed
\* last with this type at path
removeCallback(sb, path, type) ==
    [i \in 1..Len(sb) |->
        IF sb[i].path = path /\ \E n \in 1..Len(sb[i].subs) : sb[i].subs[n] = type
        THEN LET last == CHOOSE n \in 1..Len(sb[i].subs) :
                            /\ sb[i].subs[n] = type
                            /\ \A k \in (n + 1)..Len(sb[i].subs) : sb[i].subs[k] # type
             IN  [sb[i] EXCEPT !.subs = SubSeq(@, 1, last - 1) \o SubSeq(@, last + 1, Len(@))]
        ELSE sb[i]]

\* whether subscriptions.trigger finds a subscription of the type at path
subscribed(sb, path, type) ==
    \E i \in 1..Len(pathSubs(sb)) : pathSubs(sb)[i] = [path |-> path, type |-> type]

\* EventStream.subscribe: a stream that has stopped throws
subscribe(stream, callback) ==
    IF stream.activationState = "stopped" THEN stream
    ELSE [stream EXCEPT !.subscribers = Append(@, callback)]

\* the stop of an EventSubscription: subscribers.splice(subscribers.indexOf(
\* this), 1).  this is the EventSubscription the function was put on, the
\* array holds the records {callback, activationCallback, subscription}:
\* indexOf gives -1 and splice(-1, 1) takes out the last element
stop(subscribers, callback) ==
    LET indexOf == -1
    IN  IF subscribers = << >> THEN subscribers
        ELSE SubSeq(subscribers, 1, Len(subscribers) + indexOf)

\* checkActiveSubscribers of stream s: without subscribers the stream calls
\* allSubscriptionsStoppedCallback, which unsubscribes from the storage, and
\* can be used no more
checkActiveSubscribers(r, s) ==
    IF r.streams[s].subscribers = << >>
    THEN [r EXCEPT !.subs = remove(@, r.streams[s].path, r.streams[s].type),
                   !.streams[s].activationState = "stopped"]
    ELSE r

\* ourCallback of DataReference.on: publish of the stream.  Every callback is
\* called inside try and catch, what it returns is dropped
publish(r, s, e) ==
    LET subscribers == r.streams[s].subscribers
        made == [n \in 1..Len(subscribers) |->
                    [stream |-> s, callback |-> subscribers[n], path |-> e.dataPath]]
        refusing == { [stream |-> s, callback |-> subscribers[n]] :
                        n \in { i \in 1..Len(subscribers) : subscribers[i] = "refuses" } }
    IN  checkActiveSubscribers(
            [r EXCEPT !.heard.calls = @ \o made, !.heard.refused = @ \cup refusing], s)

\* Storage.test(val, "==", "live")
test(val) == val = live

addMatch(matchedPaths, path) ==
    IF \E i \in 1..Len(matchedPaths) : matchedPaths[i] = path THEN matchedPaths
    ELSE Append(matchedPaths, path)

removeMatch(matchedPaths, path) == SelectSeq(matchedPaths, LAMBDA m : m # path)

\* stopMonitoring that leaves the callbacks for the children removed
stopMonitoringAdded(sb) ==
    remove(remove(sb, posts, "notify_child_changed"), posts, "notify_child_added")

stopMonitoring(sb) ==
    remove(remove(remove(sb, posts, "notify_child_changed"), posts, "notify_child_added"),
           posts, "notify_child_removed")

\* keepMonitoring = options.eventHandler({name, path, value}) and the
\* stopMonitoring() after it; caught tells that the call is made in the
\* reaction of a promise, where what the handler throws goes no further
eventHandler(r, name, path, caught) ==
    LET told == [r EXCEPT !.heard.events = Append(@, [name |-> name, path |-> path])]
    IN  CASE r.liveQuery.eventHandler = "throws" -> [told EXCEPT !.thrown = @ \/ ~caught]
          [] r.liveQuery.eventHandler = "refuses" ->
                [told EXCEPT !.subs = stopMonitoring(@),
                             !.heard.refused = @ \cup {[stream |-> 0, callback |-> "refuses"]}]
          [] OTHER -> told

\* newValue[filter.key] of null is a TypeError
childAddedCallback(r, e) ==
    IF e.newValue = JNull THEN [r EXCEPT !.thrown = TRUE]
    ELSE IF ~test(getChildValue(status, e.newValue)) THEN r
    ELSE IF r.liveQuery.monitor.add
    THEN eventHandler([r EXCEPT !.liveQuery.matchedPaths = addMatch(@, e.dataPath)],
                      "add", e.dataPath, FALSE)
    ELSE [r EXCEPT !.liveQuery.matchedPaths = addMatch(@, e.dataPath)]

childRemovedCallback(r, e) ==
    IF r.liveQuery.monitor.remove
    THEN eventHandler([r EXCEPT !.liveQuery.matchedPaths = removeMatch(@, e.dataPath)],
                      "remove", e.dataPath, FALSE)
    ELSE [r EXCEPT !.liveQuery.matchedPaths = removeMatch(@, e.dataPath)]

\* typeof null is 'object' and Object.keys(null) is a TypeError.  The values
\* a child of posts has here all hold the key filtered, so that no key is
\* missing and the promise is Promise.resolve(true)
childChangedCallback(r, e) ==
    LET wasMatch == \E i \in 1..Len(r.liveQuery.matchedPaths) :
                        r.liveQuery.matchedPaths[i] = e.dataPath
        seenKeys == (IF e.oldValue.t = "object" THEN DOMAIN e.oldValue.kv ELSE {})
                    \cup (IF e.newValue.t = "object" THEN DOMAIN e.newValue.kv ELSE {})
        isMatch == status \in seenKeys => test(getChildValue(status, e.newValue))
    IN  IF e.oldValue = JNull \/ e.newValue = JNull THEN [r EXCEPT !.thrown = TRUE]
        ELSE IF isMatch
        THEN [r EXCEPT !.later = Append(@, [path |-> e.dataPath, wasMatch |-> wasMatch])]
        ELSE IF ~wasMatch THEN r
        ELSE IF r.liveQuery.monitor.remove
        THEN eventHandler([r EXCEPT !.liveQuery.matchedPaths = removeMatch(@, e.dataPath)],
                          "remove", e.dataPath, FALSE)
        ELSE [r EXCEPT !.liveQuery.matchedPaths = removeMatch(@, e.dataPath)]

\* childChangedCallback, the reaction of its promise: isMatch is true
gotValue(r, k) ==
    LET matched == IF k.wasMatch THEN r
                   ELSE [r EXCEPT !.liveQuery.matchedPaths = addMatch(@, k.path)]
    IN  IF k.wasMatch /\ r.liveQuery.monitor.change
        THEN eventHandler(matched, "change", k.path, TRUE)
        ELSE IF ~k.wasMatch /\ r.liveQuery.monitor.add
        THEN eventHandler(matched, "add", k.path, TRUE)
        ELSE matched

\* subscriptions.trigger and the callback it calls: a callback of the query,
\* ourCallback of a stream, or a callback that does nothing
trigger(r, e) ==
    IF r.thrown \/ ~subscribed(r.subs, e.path, e.type) THEN r
    ELSE IF isNotify(e.type) /\ r.liveQuery.eventHandler # "none"
    THEN CASE e.type = "notify_child_added" ->
                    childAddedCallback([r EXCEPT !.calls = Append(@, e)], e)
           [] e.type = "notify_child_removed" ->
                    childRemovedCallback([r EXCEPT !.calls = Append(@, e)], e)
           [] OTHER -> childChangedCallback([r EXCEPT !.calls = Append(@, e)], e)
    ELSE IF \E s \in 1..Len(r.streams) :
                r.streams[s].path = e.path /\ r.streams[s].type = e.type
    THEN publish([r EXCEPT !.calls = Append(@, e)],
                 CHOOSE s \in 1..Len(r.streams) :
                    r.streams[s].path = e.path /\ r.streams[s].type = e.type, e)
    ELSE [r EXCEPT !.calls = Append(@, e)]

RECURSIVE reactions(_)
\* the reactions of the promises, run in the order the promises were made
reactions(r) ==
    IF r.later = << >> THEN r
    ELSE reactions(gotValue([r EXCEPT !.later = Tail(@)], Head(r.later)))

RECURSIVE tick(_, _)
\* triggerAllEvents run by the event loop: events are its calls of
\* subscriptions.trigger.  What a callback throws ends the run
tick(events, r) ==
    IF events = << >> THEN reactions(r)
    ELSE tick(Tail(events), trigger(r, Head(events)))

(***************************************************************************)
(* Queries on indexes (LocalApi.query)                                     *)
(***************************************************************************)
\* number of children of the path queried
MaxRecords == 3

\* number of filters of the query that have an index
MaxFilters == 2

\* the paths of the children of the path queried
records == { childPath(A, Names[i]) : i \in 1..MaxRecords }

\* the place of a child in an index: indexes keep their matches in order
place(path) == CHOOSE i \in 1..MaxRecords : Names[i] = key(path)

RECURSIVE inOrder(_)
\* the matches an index gives for a filter, in the order of the index
inOrder(S) ==
    IF S = {} THEN << >>
    ELSE LET first == CHOOSE x \in S : \A y \in S : place(x) <= place(y)
         IN  <<first>> \o inOrder(S \ {first})

\* what filter.index.query(op, compare) can resolve with
resultSets == { inOrder(S) : S \in SUBSET records }

\* indexResultSets.sort((a,b) => a.length < b.length ? -1 : 1): the orders
\* a sort can leave the sets in; sets of one length come in any order
sortedSets(sets) ==
    { [i \in 1..Len(sets) |-> sets[f[i]]] :
        f \in { g \in [1..Len(sets) -> 1..Len(sets)] :
                    /\ \A i, j \in 1..Len(sets) : i # j => g[i] # g[j]
                    /\ \A i, j \in 1..Len(sets) : i < j => Len(sets[g[i]]) <= Len(sets[g[j]]) } }

\* otherSets.every(set => set.findIndex(m => match.path === match.path) >= 0)
matchedInAllSets(match, otherSets) ==
    \A n \in 1..Len(otherSets) :
        \E m \in 1..Len(otherSets[n]) : match = match

\* set.find(r => r.path === result.path) finds a match
otherResult(set, result) == \E r \in 1..Len(set) : set[r] = result

NoScan == [stage |-> "none", indexResultSets |-> << >>, results |-> << >>, err |-> "none"]

\* the merge of the result sets, sorted: with one set its matches, with more
\* the matches of the shortest set that are matched in all other sets;
\* otherResult.value throws a TypeError when find has found nothing
indexedResults(indexResultSets) ==
    IF Len(indexResultSets) = 0 THEN [results |-> << >>, err |-> "none"]
    ELSE IF Len(indexResultSets) = 1 THEN [results |-> indexResultSets[1], err |-> "none"]
    ELSE LET shortestSet == indexResultSets[1]
             otherSets == Tail(indexResultSets)
             matched == SelectSeq(shortestSet, LAMBDA match : matchedInAllSets(match, otherSets))
         IN  IF \E i \in 1..Len(matched), n \in 1..Len(otherSets) : ~otherResult(otherSets[n], matched[i])
             THEN [results |-> << >>, err |-> "TypeError"]
             ELSE [results |-> matched, err |-> "none"]

(***************************************************************************)
(* IPCSocketPeer, for a worker: connectSocket and sendMessage.  A message  *)
(* is [type, n], n the number of calls of sendMessage made before its own. *)
(***************************************************************************)
\* number of messages the worker sends after its hello
MaxMessages == 3

\* the tries tryConnect makes before it throws
MaxTries == 100

\* the messages a worker sends
messageTypes == {"lock", "unlock", "event"}

\* the peer when its constructor has called connectSocket, which is waiting
\* for the socket to connect, and has not sent its hello yet
NoPeer ==
    [stage |-> "connecting", tries |-> 1, connected |-> FALSE, socket |-> << >>,
     queue |-> << >>, sent |-> 0, jobs |-> << >>, flushed |-> 0]

\* sendMessage of a worker
sendMessage(p, type) ==
    LET message == [type |-> type, n |-> p.sent]
    IN  IF p.connected
        THEN [p EXCEPT !.socket = Append(@, message), !.sent = @ + 1]
        ELSE [p EXCEPT !.queue = Append(@, message), !.sent = @ + 1]

\* the loop of connectSocket with queue.pop for queue.shift
flushLastFirst(p) ==
    [p EXCEPT !.socket = @ \o [i \in 1..Len(p.queue) |-> p.queue[Len(p.queue) + 1 - i]],
              !.queue = << >>, !.flushed = Len(p.queue)]

\* while (queue.length) { message = queue.shift(); this.sendMessage(message) }
\* with connected true: every message is written
flush(p) ==
    [p EXCEPT !.socket = @ \o p.queue, !.queue = << >>, !.flushed = Len(p.queue)]

\* the job at the head of the microtask queue runs: tryConnect goes on after
\* its await, an outer tryConnect resolves with what the inner one returned,
\* or connectSocket goes on after await tryConnect(1)
runJob(p) ==
    LET rest == [p EXCEPT !.jobs = Tail(@)]
    IN  CASE Head(p.jobs) = "tryConnect" ->
                [rest EXCEPT !.connected = TRUE,
                             !.jobs = @ \o (IF p.tries > 1 THEN <<"return", "connectSocket">>
                                            ELSE <<"connectSocket">>)]
          [] Head(p.jobs) = "connectSocket" ->
                flush([rest EXCEPT !.connected = TRUE, !.stage = "connected"])
          [] OTHER -> rest

(***************************************************************************)
(* State                                                                   *)
(***************************************************************************)
VARIABLES
    scenario,   \* which calls the callers make (fixed by the initial state)
    store,      \* the backend (localStorage): path -> record
    nextRev,    \* the next id ID.generate() hands out
    locks,      \* _locks of the NodeLocker behind getTransaction
    tlocks,     \* _locks of Storage.nodeLocker, used by transactNode
    pc,         \* where each caller is in its call
    op,         \* the call each caller is making: [kind, path, value, stage,
                \* runs]; runs counts the runs of transactNode for the call
    local,      \* what the call has read: [value, revision, err]
    expected,   \* the value the caller's write means for its path
    before,     \* the backend as it was when the caller's failed write began
    seen,       \* the backend as it was when the caller's read began
    opsLeft,    \* calls that may still be started
    resolved,   \* number of transactions that stored an increment
    _subs,      \* the subscriptions of the storage
    loop,       \* ticks: the functions given to process.nextTick and not yet
                \* run; calls: the callbacks the subscriptions have had
    streams,    \* the event streams: [path, type, subscribers, activationState]
    liveQuery,  \* the query that monitors posts: [eventHandler, monitor,
                \* matchedPaths]
    heard,      \* calls: the callbacks of the streams called by the run of
                \* triggerAllEvents that came last; events: what the event
                \* handler of the query was called with; stopped: the
                \* subscriptions stop() was called on; refused: the callbacks
                \* that have returned false
    indexed,   \* the query on indexes: [stage, indexResultSets, results, err]
    timeoutCount,   \* timeoutCount of the timeoutHandler of the lock each transaction holds
    deferredFor,   \* for each function in loop.ticks, how far the write that gave it has come: written, committed or rolledback
    changed,   \* changed[c]: the changeCallback of the no_lock transaction of c has been called
    snapshots,   \* the gets ref.on(type, callback) has started for the current value, and the calls made when they resolved
    inline,   \* the string or path reference valueFitsInline was last called with, and what it returned
    peer    \* the worker peer of IPCSocketPeer: its connection, its queue, what it has written to the socket and the jobs waiting in the microtask queue

vars == <<scenario, store, nextRev, locks, tlocks, pc, op, local, expected, before, seen, opsLeft, resolved, _subs, loop, streams, liveQuery, heard, indexed, timeoutCount, deferredFor, changed, snapshots, inline, peer>>

NoOp == [kind |-> "none", path |-> Root, value |-> JNull, stage |-> "none", runs |-> 0]

NoLocal == [value |-> JNull, revision |-> NoRevision, err |-> "none"]

NoStore == << >>

NoText == [kind |-> "none", text |-> ascii(0), fits |-> FALSE]

NoQuery ==
    [eventHandler |-> "none", monitor |-> [add |-> FALSE, change |-> FALSE, remove |-> FALSE],
     matchedPaths |-> << >>]

\* CustomStorage._init: the root record is created when it is not there yet
InitStore ==
    [p \in AllPaths |->
        IF p = Root
        THEN [type |-> "object", value |-> NoKV, n |-> 0, revision |-> 1, revision_nr |-> 1]
        ELSE NoRec]

Start(sc, ops) ==
    /\ scenario = sc
    /\ store = InitStore
    /\ nextRev = 2
    /\ locks = << >>
    /\ tlocks = << >>
    /\ pc = [c \in Callers |-> "idle"]
    /\ op = [c \in Callers |-> NoOp]
    /\ local = [c \in Callers |-> NoLocal]
    /\ expected = [c \in Callers |-> JNull]
    /\ before = [c \in Callers |-> NoStore]
    /\ seen = [c \in Callers |-> NoStore]
    /\ opsLeft = ops
    /\ resolved = 0
    /\ _subs = << >>
    /\ loop = [ticks |-> << >>, calls |-> << >>]
    /\ streams = << >>
    /\ liveQuery = NoQuery
    /\ heard = [calls |-> << >>, events |-> << >>, stopped |-> {}, refused |-> {}]
    /\ indexed = NoScan
    /\ timeoutCount = [tid \in Tids |-> 0]
    /\ deferredFor = << >>
    /\ changed = [c \in Callers |-> FALSE]
    /\ snapshots = [pending |-> << >>, calls |-> << >>]
    /\ inline = NoText
    /\ peer = NoPeer

\* concurrent callers, few values
Init == Start("locks", MaxOps)

\* one caller, many values
InitStorage == Start("store", MaxWrites)

\* concurrent transactions incrementing one node
InitCounter == Start("counter", MaxIncrements)

\* the script of the repository
InitScript == Start("script", ScriptSteps)

\* a transaction and a caller that writes to its node
InitRetry == Start("retry", MaxRetryOps)

\* one caller writing an array and updating its entries
InitArray == Start("array", MaxArrayWrites)

\* one caller writing to a storage with subscriptions
InitEvents == Start("events", MaxEventWrites)

\* one caller writing to a storage with subscriptions on the children of a
\* node and on the mutations of a node
InitChildren == Start("children", MaxEventWrites)

\* one caller writing to a storage with event streams; the events of a write
\* are out before the next write is made
InitStreams == Start("streams", MaxStreamWrites)

\* one caller writing to the children of a collection a query monitors
InitQuery == Start("query", MaxQueryWrites)

\* a query with filters on indexes
InitIndexed == Start("indexed", 0)

\* a transaction with no_lock and a caller that writes to its node
InitNoLock == Start("nolock", MaxRetryOps)

\* calls of valueFitsInline with strings and path references
InitInline == Start("inline", 0)

\* a worker peer connecting to the master
InitPeer == Start("peer", 0)

\* one caller writes a node, then every caller writes to its own child of it
InitSiblings == Start("siblings", NumCallers + 1)

\* options.no_lock of the transactions: chosen in the scenario of its own
no_lock == scenario = "nolock"

\* the values of the siblings scenario: update(A, children) by the first
\* caller, then every caller sets, updates or removes its own child of A
siblingValues(kind, path) ==
    CASE kind = "update" /\ path = A ->
            { JObj(f) : f \in UNION { [ks -> {JNum(1), JLong, Single("a", JNum(1))}] :
                                        ks \in (SUBSET Keys) \ {{}} } }
      [] kind = "set" /\ isParentOf(A, path) -> {JNull, JNum(2), JLong, Single("a", JLong)}
      [] kind = "update" /\ isParentOf(A, path) -> {Single("a", JNum(2))}
      [] OTHER -> {}

callValues(kind, path) ==
    CASE scenario = "store" -> storeValues(kind, path)
      [] scenario = "script" -> scriptValues(kind, path)
      [] scenario \in {"events", "children"} -> eventValues(kind, path)
      [] scenario = "streams" -> streamValues(kind, path)
      [] scenario = "query" -> queryValues(kind, path)
      [] scenario \in {"retry", "nolock"} -> retryValues(kind, path)
      [] scenario = "array" -> arrayValues(kind, path)
      [] scenario = "siblings" -> siblingValues(kind, path)
      [] OTHER -> lockValues(kind, path)

\* the calls a caller may start now
callable(kind, path) ==
    CASE scenario = "script" -> kind = scriptKind(opsLeft) /\ path = A
      [] scenario = "siblings" ->
            /\ (opsLeft > NumCallers) = (path = A)
            /\ siblingValues(kind, path) # {}
      [] kind = "get" -> scenario = "locks" /\ path \in lockReads
      [] kind = "query" -> FALSE
      [] OTHER -> callValues(kind, path) # {}

isWrite(o) == o.kind \in {"set", "update"} \/ (o.kind = "transact" /\ o.stage = "write")

(***************************************************************************)
(* A caller calls set, update or get: the storage method asks for its      *)
(* transaction (CustomStorageSettings.getTransaction), which requests the  *)
(* lock.                                                                   *)
(***************************************************************************)
Call(c) ==
    /\ pc[c] = "idle"
    /\ opsLeft > 0
    /\ scenario \in {"locks", "store", "script", "events", "retry", "array", "children",
                     "streams", "query", "siblings", "nolock"}
    /\ scenario \in {"store", "script", "events", "array", "children", "streams", "query"} => c = 1
    /\ scenario \in {"streams", "query"} => loop.ticks = << >>
    /\ scenario = "locks" => c # transactor
    /\ scenario \in {"retry", "nolock"} => c = transactor + 1
    /\ scenario = "script" => \A d \in Callers : pc[d] = "idle"
    /\ scenario = "siblings" =>
            /\ opsLeft > NumCallers => c = 1
            /\ opsLeft = NumCallers => \A d \in Callers : pc[d] = "idle"
            /\ op[c].path # childPath(A, Names[c])
    /\ \E kind \in {"set", "update", "get", "query"}, path \in AllPaths :
        /\ callable(kind, path)
        /\ (scenario = "siblings" /\ opsLeft <= NumCallers) => path = childPath(A, Names[c])
        /\ op' = [op EXCEPT ![c] = [kind |-> kind, path |-> path, value |-> JNull, stage |-> "none", runs |-> 1]]
        /\ locks' = lock(locks, path, c, kind \in {"set", "update"}, FALSE)
    /\ pc' = [pc EXCEPT ![c] = "lock"]
    /\ local' = [local EXCEPT ![c] = NoLocal]
    /\ opsLeft' = opsLeft - 1
    /\ UNCHANGED <<scenario, peer, inline, snapshots, changed, deferredFor, timeoutCount, indexed, streams, liveQuery, heard, store, nextRev, tlocks, expected, before, seen, resolved, _subs, loop>>

\* ref(path).on(type): Storage.subscriptions.add.  The events scenario makes
\* its subscriptions before its first write.
Subscribe(path, type) ==
    /\ \/ scenario = "events" /\ [path |-> path, type |-> type] \in subscribable
       \/ scenario = "children" /\ [path |-> path, type |-> type] \in watchable
       \/ scenario = "query" /\ [path |-> path, type |-> type] \in overheard
    /\ opsLeft = IF scenario = "query" THEN MaxQueryWrites ELSE MaxEventWrites
    /\ \A c \in Callers : pc[c] = "idle"
    /\ Len(SelectSeq(pathSubs(_subs), LAMBDA x : ~isNotify(x.type))) < MaxSubs
    /\ \A i \in 1..Len(pathSubs(_subs)) : pathSubs(_subs)[i] # [path |-> path, type |-> type]
    /\ _subs' = add(_subs, path, type)
    /\ UNCHANGED <<scenario, peer, inline, snapshots, changed, deferredFor, timeoutCount, indexed, streams, liveQuery, heard, store, nextRev, locks, tlocks, pc, op, local, expected, before, seen, opsLeft, resolved, loop>>

\* the next function given to process.nextTick runs: triggerAllEvents calls
\* the callbacks
NextTick ==
    /\ loop.ticks # << >>
    /\ \E r \in {tick(Head(loop.ticks),
                      [subs |-> _subs, streams |-> streams, liveQuery |-> liveQuery,
                       heard |-> [heard EXCEPT !.calls = << >>], calls |-> loop.calls,
                       thrown |-> FALSE, later |-> << >>])} :
        /\ loop' = [ticks |-> Tail(loop.ticks), calls |-> r.calls]
        /\ _subs' = r.subs
        /\ streams' = r.streams
        /\ liveQuery' = r.liveQuery
        /\ heard' = r.heard
    /\ deferredFor' = Tail(deferredFor)
    /\ changed' = [c \in Callers |->
                      \/ changed[c]
                      \/ /\ no_lock /\ op[c].kind = "transact" /\ op[c].stage = "read"
                         /\ \E i \in 1..Len(Head(loop.ticks)) :
                                /\ Head(loop.ticks)[i].type = "notify_value"
                                /\ Head(loop.ticks)[i].path = op[c].path]
    /\ UNCHANGED <<scenario, peer, inline, snapshots, timeoutCount, indexed, store, nextRev, locks, tlocks, pc, op, local, expected, before, seen, opsLeft, resolved>>

\* ref(path).on(type): a new event stream, and ourCallback subscribed to the
\* storage.  The streams are made before the first write.
On(path, type) ==
    /\ scenario = "streams"
    /\ opsLeft = MaxStreamWrites
    /\ \A c \in Callers : pc[c] = "idle"
    /\ \A s \in 1..Len(streams) : streams[s].path # path \/ streams[s].type # type
    /\ streams' = Append(streams, [path |-> path, type |-> type, subscribers |-> << >>,
                                   activationState |-> "active"])
    /\ _subs' = add(_subs, path, type)
    /\ UNCHANGED <<scenario, peer, inline, snapshots, changed, deferredFor, timeoutCount, indexed, liveQuery, heard, store, nextRev, locks, tlocks, pc, op, local, expected, before, seen, opsLeft, resolved, loop>>

\* stream.subscribe(callback), for a callback the stream does not have yet
StreamSubscribe(s, callback) ==
    /\ s \in 1..Len(streams)
    /\ opsLeft = MaxStreamWrites
    /\ \A c \in Callers : pc[c] = "idle"
    /\ subscribersOf(streams) < MaxSubscribers
    /\ streams[s].activationState = "active"
    /\ \A i \in 1..Len(streams[s].subscribers) : streams[s].subscribers[i] # callback
    /\ [stream |-> s, callback |-> callback] \notin heard.stopped
    /\ streams' = [streams EXCEPT ![s] = subscribe(@, callback)]
    /\ UNCHANGED <<scenario, peer, inline, snapshots, changed, deferredFor, timeoutCount, indexed, liveQuery, heard, store, nextRev, locks, tlocks, pc, op, local, expected, before, seen, opsLeft, resolved, _subs, loop>>

\* stop() of the subscription stream.subscribe(callback) returned; the
\* scenario calls it between its first write and its second
Stop(s, callback) ==
    /\ s \in 1..Len(streams)
    /\ opsLeft = MaxStreamWrites - 1
    /\ \E i \in 1..Len(streams[s].subscribers) : streams[s].subscribers[i] = callback
    /\ [stream |-> s, callback |-> callback] \notin heard.stopped
    /\ \A c \in Callers : pc[c] = "idle"
    /\ loop.ticks = << >>
    /\ \E r \in {checkActiveSubscribers(
                    [subs |-> _subs,
                     streams |-> [streams EXCEPT ![s].subscribers = stop(@, callback)]], s)} :
        /\ streams' = r.streams
        /\ _subs' = r.subs
    /\ heard' = [heard EXCEPT !.stopped = @ \cup {[stream |-> s, callback |-> callback]}]
    /\ UNCHANGED <<scenario, peer, inline, snapshots, changed, deferredFor, timeoutCount, indexed, liveQuery, store, nextRev, locks, tlocks, pc, op, local, expected, before, seen, opsLeft, resolved, loop>>

\* query(posts).filter(status, "==", "live").get({snapshots, monitor,
\* eventHandler}) on the storage as it starts: nothing matches, and the
\* callbacks of the query are subscribed
LiveQuery(handler, monitor) ==
    /\ scenario = "query"
    /\ opsLeft = MaxQueryWrites
    /\ \A c \in Callers : pc[c] = "idle"
    /\ liveQuery = NoQuery
    /\ liveQuery' = [eventHandler |-> handler, monitor |-> monitor, matchedPaths |-> << >>]
    /\ _subs' = add(IF monitor.remove
                    THEN add(add(_subs, posts, "notify_child_changed"),
                             posts, "notify_child_removed")
                    ELSE add(_subs, posts, "notify_child_changed"),
                    posts, "notify_child_added")
    /\ UNCHANGED <<scenario, peer, inline, snapshots, changed, deferredFor, timeoutCount, indexed, streams, heard, store, nextRev, locks, tlocks, pc, op, local, expected, before, seen, opsLeft, resolved, loop>>

\* the id a write takes from ID.generate() is used up when a record got it
revAfter(st) == IF \E p \in AllPaths : st[p].revision = nextRev THEN nextRev + 1 ELSE nextRev

\* getNode, its first record access: _readNode of the target and, when there
\* is no record, the move of the lock to the parent
ReadTarget(c) ==
    LET moved == moveToParent(locks, c, getLockPath(store, op[c].path))
    IN  /\ locks' = moved
        /\ IF isGranted(moved, c)
           THEN /\ pc' = [pc EXCEPT ![c] = "read"]
                /\ seen' = [seen EXCEPT ![c] = store]
           ELSE UNCHANGED <<pc, seen>>
        /\ UNCHANGED <<scenario, peer, inline, snapshots, changed, deferredFor, timeoutCount, indexed, streams, liveQuery, heard, store, nextRev, tlocks, op, local, expected, before, opsLeft, resolved, _subs, loop>>

\* getNode, the rest: the parent's record or the rows of the descendants are
\* read and the value is assembled
Read(c) ==
    LET node == getNode(store, op[c].path)
    IN  /\ pc[c] = "read"
        /\ local' = [local EXCEPT ![c] =
                        [value |-> node.value, revision |-> node.revision,
                         err |-> IF node.value = JInvalid THEN "error" ELSE "none"]]
        /\ pc' = [pc EXCEPT ![c] = IF node.value = JInvalid THEN "rollback" ELSE "commit"]
        /\ seen' = [seen EXCEPT ![c] = NoStore]
        /\ UNCHANGED <<scenario, peer, inline, snapshots, changed, deferredFor, timeoutCount, indexed, streams, liveQuery, heard, store, nextRev, locks, tlocks, op, expected, before, opsLeft, resolved, _subs, loop>>

\* the body of setNode or updateNode with the value v
Write(c, v) ==
    LET o == op[c]
        assert_revision == IF o.kind = "transact" THEN local[c].revision ELSE NoRevision
        target == IF o.kind = "update" THEN updateLockPath(store, o.path)
                  ELSE setLockPath(store, o.path, v, assert_revision)
        moved == moveToParent(locks, c, target)
    IN  /\ locks' = moved
        /\ IF isGranted(moved, c)
           THEN \E r \in {tracked(store, _subs, o.kind, o.path, v, assert_revision, nextRev)} :
                /\ store' = r.st
                /\ loop' = IF r.deferred THEN defer(loop, r.events) ELSE loop
                /\ deferredFor' = IF r.deferred THEN Append(deferredFor, "written") ELSE deferredFor
                /\ nextRev' = revAfter(r.st)
                /\ op' = [op EXCEPT ![c].value = v]
                /\ local' = [local EXCEPT ![c].err = r.err]
                /\ pc' = [pc EXCEPT ![c] = IF r.err = "none" THEN "commit" ELSE "rollback"]
                /\ expected' = [expected EXCEPT ![c] =
                                    IF o.kind = "update" THEN merged(getNodeValue(store, o.path), v)
                                    ELSE strip(v)]
                /\ before' = [before EXCEPT ![c] = IF r.err = "none" THEN NoStore ELSE store]
           ELSE UNCHANGED <<store, nextRev, op, local, pc, expected, before, loop, deferredFor>>
        /\ UNCHANGED <<scenario, peer, inline, snapshots, changed, timeoutCount, indexed, streams, liveQuery, heard, tlocks, seen, opsLeft, resolved, _subs>>

\* The transaction has its lock: the storage method runs up to its commit or
\* rollback
Body(c) ==
    /\ pc[c] = "lock"
    /\ isGranted(locks, c)
    /\ IF isWrite(op[c])
       THEN \E v \in (IF op[c].kind = "transact" THEN {op[c].value}
                      ELSE callValues(op[c].kind, op[c].path)) : Write(c, v)
       ELSE ReadTarget(c)

\* where the call goes on when its transaction has ended
afterTransaction(c) ==
    IF op[c].kind = "query" THEN "matched"
    ELSE IF op[c].kind # "transact" THEN "idle"
    ELSE IF op[c].stage = "read" /\ pc[c] = "commit" THEN "callback"
    ELSE "release"

\* transaction.commit(): the commit of the backend's transaction, then the
\* lock is released.  LocalStorageTransaction.commit has nothing to do;
\* IndexedDBStorageTransaction.commit resolves when its requests have
\* succeeded, which takes the time the browser gives it
Commit(c) ==
    /\ pc[c] = "commit"
    /\ \E order \in releaseOrders(locks, c) : locks' = unlock(locks, c, TRUE, order)
    /\ pc' = [pc EXCEPT ![c] = afterTransaction(c)]
    /\ deferredFor' = IF isWrite(op[c]) THEN [i \in 1..Len(deferredFor) |-> "committed"]
                      ELSE deferredFor
    /\ UNCHANGED <<scenario, peer, inline, snapshots, changed, timeoutCount, indexed, streams, liveQuery, heard, store, nextRev, tlocks, op, local, expected, before, seen, opsLeft, resolved, _subs, loop>>

\* transaction.rollback(err): LocalStorageTransaction.rollback cannot undo
\* what was written, then the lock is released
Rollback(c) ==
    /\ pc[c] = "rollback"
    /\ \E order \in releaseOrders(locks, c) : locks' = unlock(locks, c, TRUE, order)
    /\ pc' = [pc EXCEPT ![c] = afterTransaction(c)]
    /\ before' = [before EXCEPT ![c] = NoStore]
    /\ deferredFor' = IF isWrite(op[c])
                      THEN [i \in 1..Len(deferredFor) |->
                                IF deferredFor[i] = "written" THEN "rolledback" ELSE deferredFor[i]]
                      ELSE deferredFor
    /\ UNCHANGED <<scenario, peer, inline, snapshots, changed, timeoutCount, indexed, streams, liveQuery, heard, store, nextRev, tlocks, op, local, expected, seen, opsLeft, resolved, _subs, loop>>

(***************************************************************************)
(* Storage.transactNode, called by DataReference.transaction               *)
(***************************************************************************)
\* this.nodeLocker.lock(path, tid, true, 'transactNode')
TransactStart(c) ==
    /\ pc[c] = "idle"
    /\ opsLeft > 0
    /\ scenario \in {"locks", "counter", "retry", "nolock"}
    /\ scenario \in {"locks", "retry", "nolock"} => c = transactor
    /\ LET path == IF scenario = "counter" THEN counter ELSE transactPath
       IN  /\ op' = [op EXCEPT ![c] = [kind |-> "transact", path |-> path, value |-> JNull, stage |-> "lock", runs |-> 1]]
           /\ tlocks' = IF no_lock THEN tlocks ELSE lock(tlocks, path, c, TRUE, FALSE)
    /\ pc' = [pc EXCEPT ![c] = "tlock"]
    /\ local' = [local EXCEPT ![c] = NoLocal]
    /\ opsLeft' = opsLeft - 1
    /\ UNCHANGED <<scenario, peer, inline, snapshots, changed, deferredFor, timeoutCount, indexed, streams, liveQuery, heard, store, nextRev, locks, expected, before, seen, resolved, _subs, loop>>

\* lockPromise.then: with no_lock the lock is a fake one that is there at
\* once, and changeCallback is subscribed; this.getNode(path, { tid }) asks
\* for its read transaction
TransactGetNode(c) ==
    /\ pc[c] = "tlock"
    /\ no_lock \/ isGranted(tlocks, c)
    /\ changed' = [changed EXCEPT ![c] = FALSE]
    /\ _subs' = IF no_lock THEN add(_subs, op[c].path, "notify_value") ELSE _subs
    /\ locks' = lock(locks, op[c].path, c, FALSE, FALSE)
    /\ op' = [op EXCEPT ![c].stage = "read"]
    /\ pc' = [pc EXCEPT ![c] = "lock"]
    /\ UNCHANGED <<scenario, peer, inline, snapshots, deferredFor, timeoutCount, indexed, streams, liveQuery, heard, store, nextRev, tlocks, local, expected, before, seen, opsLeft, resolved, loop>>

\* what the callbacks given to transaction() do: return the incremented
\* value, return undefined, or throw
callbacks ==
    CASE scenario = "counter" -> {"value"}
      [] scenario = "retry" -> {"value", "undefined", "throws"}
      [] OTHER -> {"value", "undefined"}

\* what the promise of DataReference.transaction settles with, for the call
\* o that has ended with l
settled(o, l) ==
    IF l.err # "none" THEN "rejected"
    ELSE IF o.stage = "threw" THEN "rejected"
    ELSE "reference"

\* the callback runs on node.value; undefined cancels, any other value goes to
\* this.setNode(path, newValue, { assert_revision: checkRevision }).  An error
\* the callback throws is caught and remembered by the cb of
\* DataReference.transaction, which returns undefined in its place
TransactCallback(c) ==
    /\ pc[c] = "callback"
    /\ \E cb \in callbacks :
        IF cb # "value"
        THEN /\ op' = [op EXCEPT ![c].stage = IF cb = "throws" THEN "threw" ELSE "cancel"]
             /\ pc' = [pc EXCEPT ![c] = "release"]
             /\ UNCHANGED <<locks, local, _subs>>
        ELSE /\ _subs' = IF no_lock THEN removeCallback(_subs, op[c].path, "notify_value")
                         ELSE _subs
             /\ IF changed[c]
                THEN /\ op' = [op EXCEPT ![c].stage = "changed"]
                     /\ local' = [local EXCEPT ![c].err = "revision"]
                     /\ pc' = [pc EXCEPT ![c] = "release"]
                     /\ UNCHANGED locks
                ELSE /\ op' = [op EXCEPT ![c].stage = "write", ![c].value = increment(local[c].value)]
                     /\ pc' = [pc EXCEPT ![c] = "lock"]
                     /\ locks' = lock(locks, op[c].path, c, TRUE, FALSE)
                     /\ UNCHANGED local
    /\ UNCHANGED <<scenario, peer, inline, snapshots, changed, deferredFor, timeoutCount, indexed, streams, liveQuery, heard, store, nextRev, tlocks, expected, before, seen, opsLeft, resolved, loop>>

\* lock.release() in .then and in .catch; a NodeRevisionError makes
\* transactNode call itself again
TransactRelease(c) ==
    /\ pc[c] = "release"
    /\ \E order \in (IF no_lock THEN {<< >>} ELSE releaseOrders(tlocks, c)) :
        LET released == IF no_lock THEN tlocks ELSE unlock(tlocks, c, TRUE, order)
        IN  IF local[c].err = "revision"
            THEN /\ tlocks' = IF no_lock THEN released
                              ELSE lock(released, op[c].path, c, TRUE, FALSE)
                 /\ op' = [op EXCEPT ![c].stage = "lock", ![c].value = JNull, ![c].runs = @ + 1]
                 /\ local' = [local EXCEPT ![c] = NoLocal]
                 /\ pc' = [pc EXCEPT ![c] = "tlock"]
                 /\ UNCHANGED resolved
            ELSE /\ tlocks' = released
                 /\ pc' = [pc EXCEPT ![c] = "idle"]
                 /\ resolved' = IF op[c].stage = "write" /\ local[c].err = "none"
                                THEN resolved + 1 ELSE resolved
                 /\ UNCHANGED <<op, local>>
    /\ UNCHANGED <<scenario, peer, inline, snapshots, changed, deferredFor, timeoutCount, indexed, streams, liveQuery, heard, store, nextRev, locks, expected, before, seen, opsLeft, _subs, loop>>

\* timeoutHandler of the transactNode lock, at its fourth call: the lock has
\* been held for four thirds of LOCK_TIMEOUT, is marked expired and the queue
\* is processed.  The callback of a transaction is the one step that can
\* take that long (it may return a promise); the lock stays in the array
\* until it is released.
LockTimeout(c) ==
    /\ scenario = "locks"
    /\ pc[c] = "callback"
    /\ isGranted(tlocks, c)
    /\ LET expired == [tlocks EXCEPT ![lockIndex(tlocks, c)].state = EXPIRED]
       IN  \E order \in pendingOrders(expired) : tlocks' = _processLockQueue(expired, order)
    /\ UNCHANGED <<scenario, peer, inline, snapshots, changed, deferredFor, timeoutCount, indexed, streams, liveQuery, heard, store, nextRev, locks, pc, op, local, expected, before, seen, opsLeft, resolved, _subs, loop>>

(***************************************************************************)
(* DataReferenceQuery.remove: refs.map(ref => ref.remove()) starts one     *)
(* remove per match; each asks for its transaction at once, in the order    *)
(* of the matches.  The remove of child Names[d] is call d.                 *)
(***************************************************************************)
RECURSIVE requestRemoves(_, _, _, _)
requestRemoves(q, path, ks, d) ==
    IF d > NumCallers THEN q
    ELSE requestRemoves(IF Names[d] \in ks
                        THEN lock(q, childPath(path, Names[d]), d, TRUE, FALSE)
                        ELSE q,
                        path, ks, d + 1)

QueryRemove(c) ==
    /\ pc[c] = "matched"
    /\ LET ks == matchedKeys(local[c].value)
       IN  /\ locks' = requestRemoves(locks, op[c].path, ks, 1)
           /\ op' = [d \in Callers |->
                        IF Names[d] \in ks
                        THEN [kind |-> "set", path |-> childPath(op[c].path, Names[d]),
                              value |-> JNull, stage |-> "none", runs |-> 1]
                        ELSE op[d]]
           /\ pc' = [d \in Callers |-> IF Names[d] \in ks THEN "lock" ELSE "idle"]
    /\ UNCHANGED <<scenario, peer, inline, snapshots, changed, deferredFor, timeoutCount, indexed, streams, liveQuery, heard, store, nextRev, tlocks, local, expected, before, seen, opsLeft, resolved, _subs, loop>>

\* query(path, query): the filters that have an index are run on their
\* indexes (Promise.all(indexScanPromises))
IndexScan(sets) ==
    /\ scenario = "indexed"
    /\ indexed.stage = "none"
    /\ indexed' = [indexed EXCEPT !.stage = "scanned", !.indexResultSets = sets]
    /\ UNCHANGED <<scenario, peer, inline, snapshots, changed, deferredFor, timeoutCount, store, nextRev, locks, tlocks, pc, op, local, expected, before, seen, opsLeft, resolved, _subs, loop, streams, liveQuery, heard>>

\* .then(indexResultSets => ...): the result sets are sorted and merged; the
\* query has no order, skip or take and asks for no snapshots, so that it
\* resolves with the merged results
IndexMerge ==
    /\ scenario = "indexed"
    /\ indexed.stage = "scanned"
    /\ \E sets \in sortedSets(indexed.indexResultSets) :
        \E r \in {indexedResults(sets)} :
            indexed' = [indexed EXCEPT !.stage = IF r.err = "none" THEN "resolved" ELSE "rejected",
                                       !.results = r.results, !.err = r.err]
    /\ UNCHANGED <<scenario, peer, inline, snapshots, changed, deferredFor, timeoutCount, store, nextRev, locks, tlocks, pc, op, local, expected, before, seen, opsLeft, resolved, _subs, loop, streams, liveQuery, heard>>

(***************************************************************************)
(* The NodeLocker on its own: transactions that ask for a lock on a path   *)
(* and release it, with no end to the requests.  A transaction that has    *)
(* released its lock may ask again: createTid() numbers the transactions,  *)
(* and nothing of a released lock stays in _locks.                         *)
(***************************************************************************)
\* NodeLocker.lock(path, tid, forWriting) by a transaction without a lock
Lock(tid, forWriting) ==
    /\ scenario = "waiting"
    /\ ~ \E i \in 1..Len(locks) : locks[i].tid = tid
    /\ locks' = lock(locks, A, tid, forWriting, FALSE)
    /\ timeoutCount' = [timeoutCount EXCEPT ![tid] = 0]
    /\ UNCHANGED <<scenario, peer, inline, snapshots, changed, deferredFor, store, nextRev, tlocks, pc, op, local, expected, before, seen, opsLeft, resolved, _subs, loop, streams, liveQuery, heard, indexed>>

\* lock.release() of a granted lock: NodeLocker.unlock and the processing
\* of the queue
Unlock(tid) ==
    /\ scenario = "waiting"
    /\ isGranted(locks, tid) \/ lockExpired(locks, tid)
    /\ \E order \in releaseOrders(locks, tid) : locks' = unlock(locks, tid, TRUE, order)
    /\ timeoutCount' = [timeoutCount EXCEPT ![tid] = 0]
    /\ UNCHANGED <<scenario, peer, inline, snapshots, changed, deferredFor, store, nextRev, tlocks, pc, op, local, expected, before, seen, opsLeft, resolved, _subs, loop, streams, liveQuery, heard, indexed>>

\* lock.moveTo(otherPath, forWriting) on a granted lock that is to change
\* between reading and writing
MoveTo(tid, forWriting) ==
    /\ scenario = "waiting"
    /\ isGranted(locks, tid)
    /\ locks[lockIndex(locks, tid)].forWriting # forWriting
    /\ locks' = moveTo(locks, tid, A, forWriting)
    /\ timeoutCount' = [timeoutCount EXCEPT ![tid] = IF isGranted(locks', tid) THEN @ ELSE 0]
    /\ UNCHANGED <<scenario, peer, inline, snapshots, changed, deferredFor, store, nextRev, tlocks, pc, op, local, expected, before, seen, opsLeft, resolved, _subs, loop, streams, liveQuery, heard, indexed>>

\* the timer of the granted lock of tid fires, LOCK_TIMEOUT / 3 after the
\* grant or after it fired last
Timeout(tid) ==
    /\ scenario = "waiting"
    /\ isGranted(locks, tid)
    /\ timeoutCount' = [timeoutCount EXCEPT ![tid] = @ + 1]
    /\ \E order \in pendingOrders(locks) :
        locks' = timeoutHandler(locks, tid, timeoutCount[tid] + 1, order)
    /\ UNCHANGED <<scenario, peer, inline, snapshots, changed, deferredFor, store, nextRev, tlocks, pc, op, local, expected, before, seen, opsLeft, resolved, _subs, loop, streams, liveQuery, heard, indexed>>

\* transactions waiting for locks
InitWaiting == Start("waiting", 0)

NextWaiting ==
    \/ \E tid \in Tids, forWriting \in BOOLEAN : Lock(tid, forWriting)
    \/ \E tid \in Tids : Unlock(tid)
    \/ \E tid \in Tids, forWriting \in BOOLEAN : MoveTo(tid, forWriting)
    \/ \E tid \in Tids : Timeout(tid)

\* every granted lock is released in the end: the code that holds a lock
\* releases it when its work is done
LockSpec ==
    /\ InitWaiting
    /\ [][NextWaiting]_vars
    /\ \A tid \in Tids : WF_vars(Unlock(tid))

\* ref(path).on("value", callback): the callback is subscribed to the new
\* stream, ourCallback to the storage, and this.get is called for the
\* current value
OnValue(path, callback) ==
    /\ scenario = "streams"
    /\ opsLeft = MaxStreamWrites
    /\ \A c \in Callers : pc[c] = "idle"
    /\ \A s \in 1..Len(streams) : streams[s].path # path \/ streams[s].type # "value"
    /\ subscribersOf(streams) < MaxSubscribers
    /\ streams' = Append(streams, [path |-> path, type |-> "value",
                                   subscribers |-> <<callback>>,
                                   activationState |-> "active"])
    /\ _subs' = add(_subs, path, "value")
    /\ snapshots' = [snapshots EXCEPT !.pending = Append(@, [stream |-> Len(streams) + 1,
                                                            callback |-> callback])]
    /\ UNCHANGED <<scenario, peer, inline, changed, deferredFor, timeoutCount, indexed, liveQuery, heard, store, nextRev, locks, tlocks, pc, op, local, expected, before, seen, opsLeft, resolved, loop>>

\* the get of on("value", callback) resolves, between two writes:
\* snap => { eventPublisher.publish(snap); callback(snap) }
GotSnapshot ==
    /\ snapshots.pending # << >>
    /\ \A c \in Callers : pc[c] = "idle"
    /\ loop.ticks = << >>
    /\ LET g == Head(snapshots.pending)
           e == [dataPath |-> streams[g.stream].path]
       IN  \E r \in {publish([subs |-> _subs, streams |-> streams, liveQuery |-> liveQuery,
                              heard |-> [heard EXCEPT !.calls = << >>], calls |-> << >>,
                              thrown |-> FALSE, later |-> << >>], g.stream, e)} :
            /\ snapshots' = [pending |-> Tail(snapshots.pending),
                             calls |-> snapshots.calls \o r.heard.calls
                                       \o << [stream |-> g.stream, callback |-> g.callback,
                                              path |-> e.dataPath] >>]
            /\ heard' = [r.heard EXCEPT !.calls = heard.calls]
            /\ streams' = r.streams
            /\ _subs' = r.subs
    /\ UNCHANGED <<scenario, peer, inline, changed, deferredFor, timeoutCount, indexed, liveQuery, store, nextRev, locks, tlocks, pc, op, local, expected, before, seen, opsLeft, resolved, loop>>

\* storage.valueFitsInline(value) for a string, or for a PathReference with
\* the string as its path; one call is followed
FitsInline(kind, str) ==
    /\ scenario = "inline"
    /\ inline.kind = "none"
    /\ inline' = [kind |-> kind, text |-> str, fits |-> textFitsInline(str)]
    /\ UNCHANGED <<scenario, peer, snapshots, changed, deferredFor, timeoutCount, indexed, store, nextRev, locks, tlocks, pc, op, local, expected, before, seen, opsLeft, resolved, _subs, loop, streams, liveQuery, heard>>

(***************************************************************************)
(* The worker peer.  A call of sendMessage, an event of the socket and a   *)
(* timer are tasks of the event loop: none starts while a job waits in the *)
(* microtask queue.                                                        *)
(***************************************************************************)
\* this.sendMessage(message); the first call is the hello of the constructor
SendMessage(type) ==
    /\ scenario = "peer"
    /\ peer.jobs = << >>
    /\ peer.sent <= MaxMessages
    /\ (peer.sent = 0) = (type = "hello")
    /\ peer' = sendMessage(peer, type)
    /\ UNCHANGED <<scenario, inline, snapshots, changed, deferredFor, timeoutCount, indexed, store, nextRev, locks, tlocks, pc, op, local, expected, before, seen, opsLeft, resolved, _subs, loop, streams, liveQuery, heard>>

\* s.once('error', reject): tryConnect waits and tries again, or throws at
\* its last try
ConnectError ==
    /\ scenario = "peer"
    /\ peer.jobs = << >>
    /\ peer.stage = "connecting"
    /\ peer.sent > 0
    /\ peer' = IF peer.tries < MaxTries THEN [peer EXCEPT !.tries = @ + 1]
               ELSE [peer EXCEPT !.stage = "failed"]
    /\ UNCHANGED <<scenario, inline, snapshots, changed, deferredFor, timeoutCount, indexed, store, nextRev, locks, tlocks, pc, op, local, expected, before, seen, opsLeft, resolved, _subs, loop, streams, liveQuery, heard>>

\* s.once('connect', resolve)
Connect ==
    /\ scenario = "peer"
    /\ peer.jobs = << >>
    /\ peer.stage = "connecting"
    /\ peer.sent > 0
    /\ peer' = [peer EXCEPT !.stage = "resolving", !.jobs = <<"tryConnect">>]
    /\ UNCHANGED <<scenario, inline, snapshots, changed, deferredFor, timeoutCount, indexed, store, nextRev, locks, tlocks, pc, op, local, expected, before, seen, opsLeft, resolved, _subs, loop, streams, liveQuery, heard>>

\* the next job of the microtask queue
Microtask ==
    /\ scenario = "peer"
    /\ peer.jobs # << >>
    /\ peer' = runJob(peer)
    /\ UNCHANGED <<scenario, inline, snapshots, changed, deferredFor, timeoutCount, indexed, store, nextRev, locks, tlocks, pc, op, local, expected, before, seen, opsLeft, resolved, _subs, loop, streams, liveQuery, heard>>

Next ==
    \/ \E c \in Callers :
        \/ Call(c)
        \/ Body(c)
        \/ Read(c)
        \/ Commit(c)
        \/ Rollback(c)
        \/ TransactStart(c)
        \/ TransactGetNode(c)
        \/ TransactCallback(c)
        \/ TransactRelease(c)
        \/ LockTimeout(c)
        \/ QueryRemove(c)
    \/ \E s \in subscribable \cup watchable \cup overheard : Subscribe(s.path, s.type)
    \/ \E s \in streamable : On(s.path, s.type)
    \/ \E s \in streamable, callback \in listeners : OnValue(s.path, callback)
    \/ GotSnapshot
    \/ \E kind \in {"string", "reference"}, str \in Texts : FitsInline(kind, str)
    \/ \E type \in messageTypes \cup {"hello"} : SendMessage(type)
    \/ ConnectError
    \/ Connect
    \/ Microtask
    \/ \E s \in 1..Cardinality(streamable), callback \in listeners : StreamSubscribe(s, callback)
    \/ \E s \in 1..Cardinality(streamable), callback \in listeners : Stop(s, callback)
    \/ \E handler \in listeners, monitor \in monitors : LiveQuery(handler, monitor)
    \/ NextTick
    \/ \E n \in 1..MaxFilters : \E sets \in [1..n -> resultSets] : IndexScan(sets)
    \/ IndexMerge

Spec == (Init \/ InitStorage \/ InitCounter \/ InitScript \/ InitEvents \/ InitRetry \/ InitArray
            \/ InitChildren \/ InitStreams \/ InitQuery \/ InitIndexed \/ InitSiblings
            \/ InitNoLock \/ InitInline \/ InitPeer)
        /\ [][Next]_vars

(***************************************************************************)
(* Properties                                                              *)
(***************************************************************************)
granted(q, i) == q[i].state = LOCKED

\* the locks granted on q exclude each other unless all of them are reads
exclusive(q) ==
    \A i, j \in 1..Len(q) :
        (granted(q, i) /\ granted(q, j) /\ q[i].tid # q[j].tid)
            => (~q[i].forWriting /\ ~q[j].forWriting)

\* C1: while a write lock is granted, no lock of another transaction is
\* granted; granted locks of different transactions are all read locks.
\* This holds of both lockers.
C1_WriteLockExclusive == exclusive(locks) /\ exclusive(tlocks)

\* a writer holds the lock while the request of another transaction waits
C1_Witness ==
    \E i, j \in 1..Len(locks) :
        /\ locks[i].tid # locks[j].tid
        /\ granted(locks, i) /\ locks[i].forWriting
        /\ locks[j].state = PENDING

locksHeld(q, c) == Cardinality({ i \in 1..Len(q) : q[i].tid = c })

\* C10: a call holds one lock of the transaction locker from its request to
\* its commit or rollback and none afterwards, and one lock of the
\* transactNode locker from the start of the transaction to its release and
\* none afterwards: nothing is left in a queue when a call has ended, be it
\* by commit, cancel, failure or retry.
C10_LocksReleased ==
    \A c \in Callers :
        /\ locksHeld(locks, c) = IF pc[c] \in {"lock", "read", "commit", "rollback"} THEN 1 ELSE 0
        /\ locksHeld(tlocks, c) = IF op[c].kind = "transact" /\ pc[c] # "idle" /\ ~no_lock
                                   THEN 1 ELSE 0

\* a transaction whose write failed on the revision has given back the lock
\* of its write and is about to release its own lock and run again
C10_Witness ==
    \E c \in Callers :
        /\ pc[c] = "release"
        /\ local[c].err = "revision"
        /\ locksHeld(locks, c) = 0

allIdle == \A c \in Callers : pc[c] = "idle"

\* a call that has begun can take its next step
canStep(c) ==
    ENABLED (Body(c) \/ Read(c) \/ Commit(c) \/ Rollback(c) \/ TransactGetNode(c)
             \/ TransactCallback(c) \/ TransactRelease(c))

\* C2: with concurrent transaction(v => (v || 0) + 1) calls on one node, a
\* callback is always given the value the node holds at that moment, no
\* started transaction is ever stuck, and once all have ended every one of
\* them has resolved and the node holds their number: N increments raise
\* the counter by N.
C2_IncrementsAddUp ==
    scenario = "counter" =>
        /\ \A c \in Callers :
              pc[c] = "callback" => local[c].value = getNodeValue(store, counter)
        /\ allIdle \/ \E c \in Callers : canStep(c)
        /\ allIdle =>
              /\ resolved = MaxIncrements - opsLeft
              /\ getNodeValue(store, counter) = (IF resolved = 0 THEN JNull ELSE JNum(resolved))

\* two transactions were under way together and both have resolved
C2_Witness ==
    /\ scenario = "counter"
    /\ allIdle
    /\ resolved = 2
    /\ getNodeValue(store, counter) = JNum(2)
    /\ \A c \in Callers : op[c].kind = "transact"

\* C3: a transaction stores its new value only if the node still holds the
\* value its callback was given: whatever another writer stored in between
\* is not overwritten (the write fails on the revision and the transaction
\* runs again).
C3_NoLostUpdate ==
    [][\A c \in Callers :
          (/\ op[c].kind = "transact"
           /\ op[c].stage = "write"
           /\ pc[c] = "lock"
           /\ pc'[c] = "commit")
          => getNodeValue(store, op[c].path) = local[c].value]_vars

\* the call of c is a write that went through and has not committed yet
written(c) == isWrite(op[c]) /\ pc[c] = "commit"

\* C5: when a write has gone through, a read of its path gives the value
\* the write means: the value set without its null properties, or for an
\* update the former value with the updated properties replaced and the
\* null ones removed.
C5_ReadYourWrite ==
    \A c \in Callers : written(c) => getNodeValue(store, op[c].path) = expected[c]

\* C6: no node is stored both in the record of its parent and in a record
\* of its own.
C6_InlineOrDedicated ==
    \A p \in AllPaths : ~(isRec(store[p]) /\ inParent(store, p))

RECURSIVE valueAt(_, _)
\* the value v holds at the relative path r, null when it holds none
valueAt(v, r) ==
    IF r = << >> THEN v
    ELSE IF v.t = "object" /\ Head(r) \in DOMAIN v.kv
    THEN valueAt(v.kv[Head(r)], Tail(r))
    ELSE JNull

\* C7: when a write has gone through, every record below the root is the
\* child of an object record, and at and below the written path records are
\* left only where the written value has a node: the records of the
\* children the rewritten parent no longer contains are gone, with all the
\* records below them.
C7_NoRecordWithoutNode ==
    \A c \in Callers :
        written(c) =>
            \A q \in AllPaths :
                isRec(store[q]) =>
                    /\ q # Root => isObjRec(store[parentPath(q)])
                    /\ (q = op[c].path \/ isAncestorOf(op[c].path, q)) =>
                          valueAt(expected[c], SubSeq(q, Len(op[c].path) + 1, Len(q))) # JNull

\* C8: when a write has gone through, every path it put null on (the path
\* itself, a property of the update, a property inside the value set) reads
\* as absent.
C8_NullRemoves ==
    \A c \in Callers :
        written(c) =>
            \A q \in nullPaths(op[c].path, op[c].value) \cap AllPaths :
                getNodeValue(store, q) = JNull

\* C9: when a write has failed, the backend holds exactly the records it
\* held before the write began.
C9_FailedWriteChangesNothing ==
    \A c \in Callers : (isWrite(op[c]) /\ pc[c] = "rollback") => store = before[c]

\* C11: once the lock of a transaction has expired, no step the transaction
\* takes changes the store, and the transaction does not get to store its
\* value: it fails.
C11_ExpiredLockChangesNothing ==
    [][\A c \in Callers :
          (lockExpired(tlocks, c) /\ pc'[c] # pc[c])
          => (store' = store /\ pc'[c] # "commit")]_vars

\* the records a read of path looks at: the record of the node, those of its
\* descendants and, the node having no record, that of its parent
readSet(st, path) ==
    { q \in AllPaths : q = path \/ isAncestorOf(path, q)
                        \/ (~isRec(st[path]) /\ isParentOf(q, path)) }

instances(q) == { p \in AllPaths : equals(p, q) }

\* the calls among batch of the value callback at q about the path p
valueCalls(batch, q, p) ==
    { i \in 1..Len(batch) : batch[i].type = "value" /\ batch[i].path = q /\ batch[i].dataPath = p }

\* the function the step has given to process.nextTick, none as no calls
deferredNow == IF Len(loop'.ticks) > Len(loop.ticks) THEN loop'.ticks[Len(loop'.ticks)] ELSE << >>

\* C13: a write that goes through calls the callback of a value subscription
\* at q once for every path p that q stands for and whose value it changes,
\* with the value of p before the write as old and the value after it as new
\* (null properties left aside), and never for a path whose value it leaves
\* as it was.
C13_ValueCallbackOncePerChange ==
    [][\A c \in Callers :
        (pc[c] = "lock" /\ pc'[c] = "commit" /\ isWrite(op'[c])) =>
            \A i \in 1..Len(pathSubs(_subs)) :
                pathSubs(_subs)[i].type = "value" =>
                    \A p \in instances(pathSubs(_subs)[i].path) :
                        LET calls == valueCalls(deferredNow, pathSubs(_subs)[i].path, p)
                        IN  IF getNodeValue(store, p) # getNodeValue(store', p)
                            THEN /\ Cardinality(calls) = 1
                                 /\ \A n \in calls :
                                      /\ deferredNow[n].oldValue = getNodeValue(store, p)
                                      /\ strip(deferredNow[n].newValue) = getNodeValue(store', p)
                            ELSE calls = {}]_vars

\* C14: the callbacks of one write are called deepest path first: among the
\* calls one run of triggerAllEvents makes, no callback subscribed on a
\* shallower path comes before one subscribed on a deeper path, so the value
\* callback of a child comes before the child_changed callback of its parent.
C14_DeepestPathFirst ==
    \A n \in 1..Len(loop.ticks) :
        \A i, j \in 1..Len(loop.ticks[n]) :
            i < j => Len(loop.ticks[n][i].path) >= Len(loop.ticks[n][j].path)

\* C15: no callback of a subscription is called inside the write that
\* caused it: a step that calls callbacks is no step of a call and leaves
\* the backend alone, and the calls it makes are calls of the function that
\* an earlier step has given to process.nextTick.
C15_CallbacksOnLaterTick ==
    [][loop'.calls # loop.calls =>
        /\ store' = store
        /\ pc' = pc
        /\ loop.ticks # << >>
        /\ SubSeq(loop'.calls, 1, Len(loop.calls)) = loop.calls
        /\ \A j \in (Len(loop.calls) + 1)..Len(loop'.calls) :
            \E i \in 1..Len(Head(loop.ticks)) : loop'.calls[j] = Head(loop.ticks)[i]]_vars

\* callbacks have been called for a write while its call still holds its lock
C15_Witness ==
    /\ loop.calls # << >>
    /\ \E c \in Callers : pc[c] = "commit" /\ isWrite(op[c])

\* C16: a transaction whose write fails the revision check is run once
\* more and no more than that: transactNode runs again only after a
\* NodeRevisionError, and only when the run that failed was the first.
C16_RetriedOnce ==
    [][\A c \in Callers :
        (op[c].kind = "transact" /\ op'[c].runs > op[c].runs) =>
            (local[c].err = "revision" /\ op[c].runs = 1)]_vars

\* C17: when the callback of a transaction throws or returns undefined, the
\* transaction is cancelled: the steps it takes from there write nothing, and
\* its promise resolves with the reference.
C17_CancelledTransaction ==
    [][\A c \in Callers :
        (op'[c].kind = "transact" /\ op'[c].stage \in {"cancel", "threw"} /\ pc'[c] # pc[c]) =>
            /\ store' = store
            /\ pc'[c] = "idle" => settled(op'[c], local'[c]) = "reference"]_vars

\* C18: a write that goes through and leaves a node at its path p sets the
\* revision_nr of p to one more than it was before the write, or to 1 when
\* there was no node at p before the write, whether the node is stored in
\* the record of its parent or in a record of its own.
C18_RevisionNrCounts ==
    [][\A c \in Callers :
        (pc[c] = "lock" /\ pc'[c] = "commit" /\ isWrite(op'[c])) =>
            LET pre == getNodeInfo(store, op'[c].path)
                post == getNodeInfo(store', op'[c].path)
            IN  post.exists =>
                    post.revision_nr = IF pre.exists THEN pre.revision_nr + 1 ELSE 1]_vars

\* the records a step has stored
recordsWritten == { q \in AllPaths : isRec(store'[q]) /\ store'[q] # store[q] }

\* C19: when a write has gone through, all the records it stored (that of its
\* target and those of the children stored with it) have the same revision.
C19_OneRevisionPerWrite ==
    [][\A c \in Callers :
        (pc[c] = "lock" /\ pc'[c] = "commit" /\ isWrite(op'[c])) =>
            \A q, r \in recordsWritten : store'[q].revision = store'[r].revision]_vars

\* the keys of the array stored at p: those of its record and those of the
\* records of its children
storedKeys(st, p) == (DOMAIN st[p].value) \cup dedicatedKeys(st, p)

\* the last key of the array stored at p
trailingKey(st, p) == arrayKeys[Cardinality(storedKeys(st, p))]

\* C20: every array stored has the keys 0..n-1 and no other.  An update of
\* an array that removes an entry other than the last, or adds one beyond
\* the end, is rejected and changes nothing; an update that removes just the
\* last entry goes through and leaves the entries before it.
C20_ArraysExhaustive ==
    [][/\ \A p \in AllPaths : store'[p].type = "array" => isExhaustive(storedKeys(store', p))
       /\ \A c \in Callers :
            (/\ pc[c] = "lock" /\ pc'[c] \in {"commit", "rollback"}
             /\ op'[c].kind = "update"
             /\ store[op'[c].path].type = "array"
             /\ isExhaustive(storedKeys(store, op'[c].path))) =>
                LET p == op'[c].path
                    v == op'[c].value.kv
                    keys == storedKeys(store, p)
                    removed == { k \in DOMAIN v : v[k].t = "null" /\ k \in keys }
                    added == { k \in DOMAIN v : v[k].t # "null" /\ k \notin keys }
                IN  /\ (\/ \E k \in removed : k # trailingKey(store, p)
                        \/ \E k \in added : k # arrayKeys[Cardinality(keys) + 1])
                            => (pc'[c] = "rollback" /\ store' = store)
                    /\ (added = {} /\ removed = {trailingKey(store, p)} /\ DOMAIN v = removed)
                            => (pc'[c] = "commit" /\ storedKeys(store', p) = keys \ removed)]_vars

\* C21: when set(p, v) has gone through, with v a value that fits inline and
\* the parent of p an object or array before the write, no record is stored
\* at p and the record of the parent of p holds v under the key of p.
C21_InlineAfterSet ==
    [][\A c \in Callers :
        (/\ pc[c] = "lock" /\ pc'[c] = "commit"
         /\ op'[c].kind = "set" /\ op'[c].path # Root
         /\ op'[c].value.t # "null" /\ valueFitsInline(op'[c].value)
         /\ getNodeValue(store, parentPath(op'[c].path)).t \in {"object", "array"}) =>
            /\ ~isRec(store'[op'[c].path])
            /\ inParent(store', op'[c].path)
            /\ store'[parentPath(op'[c].path)].value[key(op'[c].path)] = op'[c].value]_vars

\* a set of a number has gone through on a child of an object that had its
\* record before the write
C21_Witness ==
    \E c \in Callers :
        /\ written(c) /\ op[c].kind = "set" /\ op[c].path = AA
        /\ op[c].value = JNum(1)
        /\ ~isRec(store[AA]) /\ inParent(store, AA)
        /\ isObjRec(store[A])
        /\ store[A].revision_nr > 1

\* C22: below the root an object or array without children has no record of
\* its own (it is held in the record of its parent), and one held in the
\* record of its parent has no children: an object or array with children
\* has its own record.
C22_EmptyInlineElseDedicated ==
    \A p \in AllPaths \ {Root} :
        /\ isObjRec(store[p]) =>
              (DOMAIN store[p].value # {} \/ dedicatedKeys(store, p) # {})
        /\ inParent(store, p) =>
              LET v == store[parentPath(p)].value[key(p)]
              IN  v.t \in {"object", "array"} => DOMAIN v.kv = {}

\* C23: when set(p, v) has gone through on a path whose value was held in
\* the record of its parent, with v a value that does not fit inline, p has
\* a record of its own, the record of the parent no longer has an entry
\* for it, and a read of the parent gives the new value under the key of p.
C23_InlineToDedicated ==
    [][\A c \in Callers :
        (/\ pc[c] = "lock" /\ pc'[c] = "commit"
         /\ op'[c].kind = "set" /\ op'[c].path # Root
         /\ inParent(store, op'[c].path) /\ ~isRec(store[op'[c].path])
         /\ op'[c].value.t # "null" /\ ~valueFitsInline(op'[c].value)) =>
            /\ isRec(store'[op'[c].path])
            /\ ~inParent(store', op'[c].path)
            /\ getNodeValue(store', parentPath(op'[c].path)).t = "object"
            /\ key(op'[c].path) \in DOMAIN getNodeValue(store', parentPath(op'[c].path)).kv
            /\ getNodeValue(store', parentPath(op'[c].path)).kv[key(op'[c].path)]
                    = strip(op'[c].value)]_vars

\* set('a/a', <long string>) has gone through where 'a' held a: 1 inline
C23_Witness ==
    \E c \in Callers :
        /\ written(c) /\ op[c].kind = "set" /\ op[c].path = AA /\ op[c].value = JLong
        /\ store[AA].type = "string"
        /\ isObjRec(store[A]) /\ store[A].revision_nr > 1
        /\ DOMAIN store[A].value = {} /\ dedicatedKeys(store, A) = {"a"}

\* the calls among batch of the callback for the events of type at q about
\* the path p
callsAbout(batch, type, q, p) ==
    { i \in 1..Len(batch) : batch[i].type = type /\ batch[i].path = q /\ batch[i].dataPath = p }

\* C24: for a child c of a path with a subscription on its children, a write
\* that goes through fires child_added exactly when c held nothing before
\* the write and holds a value after it, child_removed exactly when c held a
\* value before and holds nothing after, and child_changed exactly when c
\* holds a value on both sides and the two differ.
C24_ChildEvents ==
    [][\A c \in Callers :
        (pc[c] = "lock" /\ pc'[c] = "commit" /\ isWrite(op'[c])) =>
            \A i \in 1..Len(pathSubs(_subs)) :
                LET sub == pathSubs(_subs)[i]
                IN  \A p \in { x \in AllPaths : isParentOf(sub.path, x) } :
                        LET old == getNodeValue(store, p)
                            new == getNodeValue(store', p)
                            fired == callsAbout(deferredNow, sub.type, sub.path, p) # {}
                        IN  /\ sub.type = "child_added" => (fired <=> (old = JNull /\ new # JNull))
                            /\ sub.type = "child_removed" => (fired <=> (old # JNull /\ new = JNull))
                            /\ sub.type = "child_changed" =>
                                  (fired <=> (old # JNull /\ new # JNull /\ old # new))]_vars

\* the changes a step makes at and below q, leaf by leaf: the paths whose
\* value differs, reached from q through nodes that are objects before and
\* after, and that are not themselves objects on both sides
changedLeaves(q) ==
    { [path |-> p, oldValue |-> getNodeValue(store, p), newValue |-> getNodeValue(store', p)] :
        p \in { x \in AllPaths :
                  /\ x = q \/ isAncestorOf(q, x)
                  /\ getNodeValue(store, x) # getNodeValue(store', x)
                  /\ getNodeValue(store, x).t # "object" \/ getNodeValue(store', x).t # "object"
                  /\ \A n \in Len(q)..(Len(x) - 1) :
                        /\ getNodeValue(store, SubSeq(x, 1, n)).t = "object"
                        /\ getNodeValue(store', SubSeq(x, 1, n)).t = "object" } }

\* C25: a write that goes through calls the callback of a mutated
\* subscription at q once for every changed leaf at or below q and for
\* nothing else, each call with the path of the leaf and its value before
\* and after the write, whatever other subscriptions there are.
C25_MutatedPerLeaf ==
    [][\A c \in Callers :
        (pc[c] = "lock" /\ pc'[c] = "commit" /\ isWrite(op'[c])) =>
            \A i \in 1..Len(pathSubs(_subs)) :
                pathSubs(_subs)[i].type = "mutated" =>
                    LET q == pathSubs(_subs)[i].path
                        calls == { n \in 1..Len(deferredNow) :
                                     deferredNow[n].type = "mutated" /\ deferredNow[n].path = q }
                    IN  /\ Cardinality(calls) = Cardinality(changedLeaves(q))
                        /\ { [path |-> deferredNow[n].dataPath,
                              oldValue |-> deferredNow[n].oldValue,
                              newValue |-> deferredNow[n].newValue] : n \in calls }
                                = changedLeaves(q)]_vars

\* a step of the event loop: triggerAllEvents of the write that came first runs
ticked == loop.ticks # << >> /\ loop'.ticks = Tail(loop.ticks)

\* the calls of subscriptions.trigger the run is to make, with a subscription
\* that is there before the run and after it
dueCalls ==
    SelectSeq(Head(loop.ticks),
              LAMBDA e : subscribed(_subs, e.path, e.type) /\ subscribed(_subs', e.path, e.type))

\* C26: whatever a callback throws, the run of triggerAllEvents calls the
\* callback of every subscription the write has events for and every
\* subscriber of their streams, and leaves the write as it ended
C26_ThrowingCallbackCaught ==
    [][ticked =>
            /\ \A i \in 1..Len(dueCalls) :
                  \E j \in (Len(loop.calls) + 1)..Len(loop'.calls) : loop'.calls[j] = dueCalls[i]
            /\ \A s \in 1..Len(streams) : \A n \in 1..Len(streams[s].subscribers) :
                  (\E i \in 1..Len(dueCalls) :
                      dueCalls[i].path = streams[s].path /\ dueCalls[i].type = streams[s].type)
                  => \E j \in 1..Len(heard'.calls) :
                        /\ heard'.calls[j].stream = s
                        /\ heard'.calls[j].callback = streams[s].subscribers[n]
            /\ store' = store /\ pc' = pc /\ local' = local]_vars

\* the subscription stream.subscribe(callback) of stream s returned
handle(s, callback) == [stream |-> s, callback |-> callback]

\* stop() is called on the subscription of callback to stream s
stopping(s, callback) ==
    /\ handle(s, callback) \notin heard.stopped
    /\ heard'.stopped = heard.stopped \cup {handle(s, callback)}

\* C27: stop() of the subscription of one subscriber takes that subscriber,
\* and no other, out of the stream; the storage subscription goes with the
\* last subscriber; and no run of triggerAllEvents after it calls the callback
C27_StopUnregistersOne ==
    [][/\ \A s \in 1..Len(streams) : \A callback \in listeners :
            stopping(s, callback) =>
                /\ streams'[s].subscribers
                        = SelectSeq(streams[s].subscribers, LAMBDA x : x # callback)
                /\ streams'[s].subscribers = << >>
                        <=> ~subscribed(_subs', streams[s].path, streams[s].type)
       /\ ticked => \A j \in 1..Len(heard'.calls) :
                        handle(heard'.calls[j].stream, heard'.calls[j].callback)
                            \notin heard.stopped]_vars

\* C28: a callback of a stream that has returned false is called by no run of
\* triggerAllEvents that comes after
C28_ReturnFalseUnregisters ==
    [][ticked => \A j \in 1..Len(heard'.calls) :
                    heard'.calls[j].stream # 0
                    => handle(heard'.calls[j].stream, heard'.calls[j].callback)
                            \notin heard.refused]_vars

\* the event handler of the query has returned false
refusedBy(h) == handle(0, "refuses") \in h.refused

isLive == test(getChildValue(status, getNodeValue(store, p1)))

\* C30: with a query on posts that monitors add and remove and a handler that
\* returns nothing, when an update of posts/p1 has had its events the last
\* thing the handler was told is add of posts/p1 if posts/p1 matches now, and
\* remove of posts/p1 if it does not and the handler was told of it before
C30_LiveQueryMonitor ==
    (/\ liveQuery.eventHandler = "returns"
     /\ op[1].kind = "update" /\ op[1].path = p1
     /\ loop.ticks = << >>
     /\ \A c \in Callers : pc[c] = "idle")
    => /\ isLive =>
            /\ heard.events # << >>
            /\ heard.events[Len(heard.events)] = [name |-> "add", path |-> p1]
       /\ ~isLive /\ heard.events # << >> =>
            heard.events[Len(heard.events)] = [name |-> "remove", path |-> p1]

pathsOf(matches) == { matches[i] : i \in 1..Len(matches) }

\* C31: a query with two or more filters on indexes resolves with the
\* records whose path is in the result set of every one of the filters, each
\* of them once.
C31_IndexedIntersection ==
    (indexed.stage \in {"resolved", "rejected"} /\ Len(indexed.indexResultSets) >= 2)
        => /\ indexed.stage = "resolved"
           /\ pathsOf(indexed.results) =
                { p \in records : \A n \in 1..Len(indexed.indexResultSets) : p \in pathsOf(indexed.indexResultSets[n]) }
           /\ Cardinality(pathsOf(indexed.results)) = Len(indexed.results)

\* C34: the timer that ends the grant of a lock does so LOCK_TIMEOUT after
\* the grant, three intervals of LOCK_TIMEOUT / 3, and the lock is then no
\* longer in the queue.
C34_ExpiresAfterThreeIntervals ==
    [][\A tid \in Tids :
        (isGranted(locks, tid) /\ timeoutCount'[tid] > timeoutCount[tid] /\ ~isGranted(locks', tid))
            => /\ timeoutCount'[tid] * (LOCK_TIMEOUT \div 3) = LOCK_TIMEOUT
               /\ ~ \E i \in 1..Len(locks') : locks'[i].tid = tid]_vars

\* the request of tid waits in the queue
isPending(q, tid) == \E i \in 1..Len(q) : q[i].tid = tid /\ q[i].state = PENDING

\* C32: when every granted lock is released in the end, every request that
\* waits is granted in the end, whatever requests are made after it.
C32_PendingEventuallyGranted ==
    \A tid \in Tids : isPending(locks, tid) ~> isGranted(locks, tid)

\* the transactions whose request waits in q and is granted in r
grantedNow(q, r) == { tid \in Tids \cup Callers : isPending(q, tid) /\ isGranted(r, tid) }

\* the queue r as it was before the requests in tids were granted
ungranted(r, tids) ==
    [i \in 1..Len(r) |-> IF r[i].tid \in tids THEN [r[i] EXCEPT !.state = PENDING] ELSE r[i]]

RECURSIVE ascending(_)
\* the numbers in S, smallest first
ascending(S) ==
    IF S = {} THEN << >>
    ELSE LET least == CHOOSE x \in S : \A y \in S : x <= y
         IN  <<least>> \o ascending(S \ {least})

\* the pending requests of q in the order they were made (the order of the
\* array), those with priority first
requestOrder(q) ==
    ascending({ i \in 1..Len(q) : q[i].state = PENDING /\ q[i].priority })
        \o ascending({ i \in 1..Len(q) : q[i].state = PENDING /\ ~q[i].priority })

\* pending requests of q are granted in r as by going through them in the
\* order they were made, those with priority first
inRequestOrder(q, r) ==
    grantedNow(q, r) # {} =>
        r = grantInOrder(ungranted(r, grantedNow(q, r)), requestOrder(ungranted(r, grantedNow(q, r))))

\* C33: whenever pending requests are granted, they are granted in the order
\* they were requested, requests with priority before those without: a
\* request stays pending only when it is not compatible with the locks held
\* and the requests before it.
C33_GrantedInRequestOrder ==
    [][inRequestOrder(locks, locks') /\ inRequestOrder(tlocks, tlocks')]_vars

\* C35: when callbacks are called for a write, the transaction of the write
\* has been committed: it is neither still to be committed nor rolled back.
C35_NotifiedAfterCommit ==
    [][(ticked /\ loop'.calls # loop.calls) => Head(deferredFor) = "committed"]_vars

\* C36: when every caller has written to or removed its own child of one
\* node and all the calls have ended, every call has succeeded and every
\* child has the value its caller wrote: a removed child is not there.
C36_SiblingWritesTakeEffect ==
    (scenario = "siblings" /\ opsLeft = 0 /\ \A c \in Callers : pc[c] = "idle")
        => \A c \in Callers :
              /\ local[c].err = "none"
              /\ getNodeValue(store, childPath(A, Names[c])) = expected[c]

\* one caller has removed its child while another was writing to its own,
\* and the written child is there
C36_Witness ==
    /\ scenario = "siblings" /\ opsLeft = 0
    /\ \A c \in Callers : pc[c] = "idle"
    /\ op[1].value = JNull /\ op[2].value = JLong
    /\ getNodeValue(store, A) = Single("b", JLong)

\* C37: when a transaction run with no_lock has ended, by commit, cancel,
\* callback error or after retries, the subscriptions are those there were
\* before it.  Nothing else subscribes in the scenario, so that there are
\* none.
C37_NoLockSubscriptionRemoved ==
    (no_lock /\ pc[transactor] = "idle") => pathSubs(_subs) = << >>


\* C38: when the get that ref.on("value", callback) makes for the current
\* value has resolved, the callback has been called once for it, as a
\* subscriber of the stream is for an event: no callback is called twice for
\* the current value of one stream.
C38_InitialValueOnce ==
    \A i, j \in 1..Len(snapshots.calls) :
        (/\ snapshots.calls[i].stream = snapshots.calls[j].stream
         /\ snapshots.calls[i].callback = snapshots.calls[j].callback) => i = j

\* C39: a string or path reference that UTF-8 encodes in exactly
\* maxInlineValueSize bytes fits inline, and one that takes one byte more
\* does not.
C39_InlineSizeLimit ==
    inline.kind # "none" =>
        /\ encodeString(inline.text) = maxInlineValueSize => inline.fits
        /\ encodeString(inline.text) = maxInlineValueSize + 1 => ~inline.fits


\* C40: what a worker has written to the socket is, in their order, the
\* messages of its first calls of sendMessage, the hello first: a message
\* that was queued before the socket was connected is written before every
\* message sent after it.
C40_WrittenInCallOrder ==
    \A i \in 1..Len(peer.socket) : peer.socket[i].n = i - 1

\* the hello and a message were queued, written when the socket had
\* connected, and a message sent afterwards has been written after them
C40_Witness ==
    /\ peer.flushed >= 2
    /\ Len(peer.socket) > peer.flushed
    /\ peer.socket[1].type = "hello"
    /\ peer.tries > 1

====
